---- MODULE Spec2Model ----
(***************************************************************************)
(* A model of the MCQ-Gen generation pipeline (src/mcqgen):                *)
(*   - make_chunks            (run_utils.py)   the page partitioner        *)
(*   - llm_generate_questions_for_chunk (generate.py) one window's calls   *)
(*   - postprocess_questions  (postprocess.py) validation, shuffles, ids   *)
(*   - run_generate_pipeline  (pipeline.py)    the run that ties them      *)
(*   - explain, add_explanations_for_wrong_questions (cli.py, explain.py)  *)
(*                                             the enricher                *)
(*   - render_generator_prompt, render_explain_prompt, escape_braces and   *)
(*     the requests of call_responses_structured / call_responses_text     *)
(* Six state machines share the module: SpecChunks steps the loop of       *)
(* make_chunks, SpecPost applies postprocess_questions to drawn inputs,    *)
(* Spec is a whole generation run against a nondeterministic oracle,       *)
(* SpecExplain is the explain command run on the output of an earlier run, *)
(* SpecFn applies the prompt and request builders to drawn texts and       *)
(* settings, and SpecGen follows llm_generate_questions_for_chunk window   *)
(* by window with the request of every oracle call.                        *)
(* Strings that the code builds by formatting (ids) are sequences of       *)
(* one-character strings, so that their digits can be inspected.           *)
(***************************************************************************)
EXTENDS Integers, Sequences, FiniteSets, TLC

VARIABLES
    \* ---- make_chunks (run_utils.py) ----
    total_pages,          \* argument
    pages_per_partition,  \* argument
    overlap_pages,        \* argument
    start,                \* local `start`
    idx,                  \* local `idx`
    chunks,               \* local `chunks`, the list being built
    mc_pc,                \* "idle" | "loop" (at the while test) | "done" (returned)
    \* ---- configuration (cfg["generation"], cfg["randomization"]) ----
    question_type,
    choices_per_question,
    randomize_questions,
    randomize_options,
    \* ---- postprocess_questions (postprocess.py) ----
    questions,            \* the list object passed in; it is mutated in place
    pp_input,             \* the value of that list when the call was made
    pp_pc,                \* "idle" | "call" | "returned" | "raised", and after a
                          \* second call "returned_again" | "raised_again"
    \* ---- run_generate_pipeline (pipeline.py), llm_generate_questions_for_chunk ----
    pc,                   \* "idle" | "generate" (before an oracle call) | "done" | "aborted"
    chunk_index,          \* `idx` of the loop over chunks (1-based)
    attempt,              \* `attempt` of the retry loop of the current window
    all_questions,        \* `all_questions`
    output,               \* output.json: [written |-> FALSE] until write_json
    response,             \* what the oracle answered to the latest call
    last_window,          \* the window the latest oracle call was made for, 0 before any
    calls,                \* oracle calls made so far for window last_window
    failures,             \* those of them that ended in an exception
    wstatus,              \* per window: "pending" | "ok" | "exhausted" | "raised"
    contrib,              \* per window: the list the window's call returned
    progress,             \* the calls of progress_callback, in order
    error,                \* the exception that ended the run, "" if none
    \* ---- the explain command (cli.py), add_explanations_for_wrong_questions ----
    wrong_doc,            \* the parsed wrong_ids.json
    output_file,          \* output.json of the run folder, as it is on disk
    ex_pc,                \* "idle" | "start" | "loop" | "done" | "rejected"
    ex_run,               \* how many times the command has been started
    client_made,          \* make_client() has been called by this command
    ex_loaded,            \* `output` as json.loads returned it (explain.py:101)
    ex_output,            \* `output`, whose questions are mutated in place
    wrong_ids,            \* argument `wrong_ids`
    ex_pos,               \* position in wrong_ids of the loop variable `qid`
    ex_attempt,           \* `attempt` of the retry loop of the current qid
    updated,              \* counter `updated`
    skipped_missing,      \* counter `skipped_missing`
    skipped_failed,       \* counter `skipped_failed`
    ex_log,               \* the oracle calls of this command, in order
    ex_replay,            \* the oracle calls of the previous command
    \* ---- cfg["llm"], cfg["generation"]["questions_per_partition"] ----
    reasoning_effort,
    temperature,          \* "None" when no temperature is given
    questions_per_partition,
    \* ---- the prompt and request builders taken one call at a time ----
    fn_text,              \* a text that comes from a document or a question
    fn_op,                \* the function that was applied, "none" before
    fn_result,            \* what it returned
    \* ---- llm_generate_questions_for_chunk (generate.py), window by window ----
    g_pc,                 \* "idle" | "entry" | "attempt" | "returned" | "raised"
    g_window,             \* the window the function was called for
    g_chunk_text,         \* argument `chunk_text`
    g_counts,             \* `counts`, <<>> when there are none
    g_prompt,             \* `prompt`
    g_attempt,            \* `attempt`
    g_log,                \* the requests sent for this window, in order
    g_calls,              \* per window called so far: the number of its oracle calls
    g_result              \* what the function returned

mcVars == <<total_pages, pages_per_partition, overlap_pages, start, idx, chunks, mc_pc>>
cfgVars == <<question_type, choices_per_question, randomize_questions, randomize_options>>
ppVars == <<questions, pp_input, pp_pc>>
runVars == <<pc, chunk_index, attempt, all_questions, output, response,
             last_window, calls, failures, wstatus, contrib, progress, error>>

exVars == <<wrong_doc, output_file, ex_pc, ex_run, client_made, ex_loaded, ex_output,
            wrong_ids, ex_pos, ex_attempt, updated, skipped_missing, skipped_failed,
            ex_log, ex_replay>>

llmVars == <<reasoning_effort, temperature, questions_per_partition>>

fnVars == <<fn_text, fn_op, fn_result>>

genVars == <<g_pc, g_window, g_chunk_text, g_counts, g_prompt, g_attempt, g_log,
             g_calls, g_result>>

requestVars == <<llmVars, fnVars, genVars>>

vars == <<mcVars, cfgVars, ppVars, runVars, exVars, requestVars>>

-----------------------------------------------------------------------------
(* Bounds of the model *)

MaxPages == 6
MaxPagesPerPartition == 3
MaxQuestions == 3
MaxRunPages == 3

-----------------------------------------------------------------------------
(* Formatting: f"{n:0Wd}" as a sequence of characters *)

DigitChars == <<"0", "1", "2", "3", "4", "5", "6", "7", "8", "9">>

RECURSIVE Digits(_)
Digits(n) ==
    IF n < 10 THEN <<DigitChars[n + 1]>>
    ELSE Digits(n \div 10) \o <<DigitChars[(n % 10) + 1]>>

ZeroPad(n, width) ==
    LET d == Digits(n)
    IN  IF Len(d) >= width THEN d
        ELSE [i \in 1..(width - Len(d)) |-> "0"] \o d

Min(a, b) == IF a <= b THEN a ELSE b

-----------------------------------------------------------------------------
(* make_chunks, run_utils.py:28-46 *)

\* f"chunk_{idx:03d}"
ChunkId(i) == <<"c", "h", "u", "n", "k", "_">> \o ZeroPad(i, 3)

\* Mutant: the stride forgets one page of the overlap.
Stride_OffByOne(ppp, overlap) == ppp - overlap + 1

\* Mutant: the next window starts after the previous one, without overlap.
Stride_IgnoresOverlap(ppp, overlap) == ppp

\* stride = pages_per_partition - overlap_pages
Stride(ppp, overlap) == ppp - overlap

\* Mutant: the window end is not clamped to the document.
WindowEnd_NoClamp(s, ppp, total) == s + ppp - 1

\* end = min(start + pages_per_partition - 1, total_pages)
WindowEnd(s, ppp, total) == Min(s + ppp - 1, total)

\* Mutant: the loop never breaks on reaching the last page.
IsLastWindow_NeverBreaks(end, total) == FALSE

\* if end == total_pages: break
IsLastWindow(end, total) == end = total

MakeChunksIdle ==
    /\ total_pages = 0
    /\ pages_per_partition = 1
    /\ overlap_pages = 0
    /\ start = 1
    /\ idx = 1
    /\ chunks = <<>>
    /\ mc_pc = "idle"

MakeChunksInit ==
    /\ total_pages \in 0..MaxPages
    /\ pages_per_partition \in 1..MaxPagesPerPartition
    /\ overlap_pages \in 0..(pages_per_partition - 1)
    /\ start = 1
    /\ idx = 1
    /\ chunks = <<>>
    /\ mc_pc = "loop"

\* One iteration of `while start <= total_pages`: append a window, then
\* either break or advance by the stride.
MakeChunksIterate ==
    /\ mc_pc = "loop"
    /\ start <= total_pages
    /\ LET end == WindowEnd(start, pages_per_partition, total_pages)
       IN  /\ chunks' = Append(chunks, [chunk_id |-> ChunkId(idx),
                                        page_start |-> start,
                                        page_end |-> end])
           /\ IF IsLastWindow(end, total_pages)
              THEN /\ mc_pc' = "done"
                   /\ UNCHANGED <<start, idx>>
              ELSE /\ start' = start + Stride(pages_per_partition, overlap_pages)
                   /\ idx' = idx + 1
                   /\ mc_pc' = "loop"
    /\ UNCHANGED <<total_pages, pages_per_partition, overlap_pages>>
    /\ UNCHANGED <<cfgVars, ppVars, runVars, exVars, requestVars>>

\* The while test fails: return chunks.
MakeChunksExit ==
    /\ mc_pc = "loop"
    /\ ~(start <= total_pages)
    /\ mc_pc' = "done"
    /\ UNCHANGED <<total_pages, pages_per_partition, overlap_pages, start, idx, chunks>>
    /\ UNCHANGED <<cfgVars, ppVars, runVars, exVars, requestVars>>

\* The function as a whole: the list the loop returns.
RECURSIVE MakeChunksFrom(_, _, _, _, _, _)
MakeChunksFrom(s, i, acc, total, ppp, overlap) ==
    IF ~(s <= total) THEN acc
    ELSE LET end == WindowEnd(s, ppp, total)
             acc2 == Append(acc, [chunk_id |-> ChunkId(i),
                                  page_start |-> s, page_end |-> end])
         IN  IF IsLastWindow(end, total) THEN acc2
             ELSE MakeChunksFrom(s + Stride(ppp, overlap), i + 1, acc2,
                                 total, ppp, overlap)

\* Mutant: the loop body runs once before the test, so that a document
\* without pages still yields a window.
make_chunks_DoWhile(total, ppp, overlap) ==
    IF total = 0
    THEN <<[chunk_id |-> ChunkId(1), page_start |-> 1, page_end |-> 0]>>
    ELSE MakeChunksFrom(1, 1, <<>>, total, ppp, overlap)

make_chunks(total, ppp, overlap) == MakeChunksFrom(1, 1, <<>>, total, ppp, overlap)

RunIdle ==
    /\ pc = "idle"
    /\ chunk_index = 1
    /\ attempt = 1
    /\ all_questions = <<>>
    /\ output = [written |-> FALSE]
    /\ response = [kind |-> "none"]
    /\ last_window = 0
    /\ calls = 0
    /\ failures = 0
    /\ wstatus = <<>>
    /\ contrib = <<>>
    /\ progress = <<>>
    /\ error = ""

ExplainIdle ==
    /\ wrong_doc = [wrong_question_ids |-> [type |-> "list", items |-> <<>>]]
    /\ output_file = [questions |-> <<>>]
    /\ ex_pc = "idle"
    /\ ex_run = 0
    /\ client_made = FALSE
    /\ ex_loaded = [questions |-> <<>>]
    /\ ex_output = [questions |-> <<>>]
    /\ wrong_ids = <<>>
    /\ ex_pos = 1
    /\ ex_attempt = 1
    /\ updated = 0
    /\ skipped_missing = 0
    /\ skipped_failed = 0
    /\ ex_log = <<>>
    /\ ex_replay = <<>>

LlmIdle ==
    /\ reasoning_effort = "none"
    /\ temperature = "None"
    /\ questions_per_partition = 1

FnIdle ==
    /\ fn_text = <<>>
    /\ fn_op = "none"
    /\ fn_result = [raised |-> FALSE]

GenIdle ==
    /\ g_pc = "idle"
    /\ g_window = 1
    /\ g_chunk_text = <<>>
    /\ g_counts = <<>>
    /\ g_prompt = <<>>
    /\ g_attempt = 1
    /\ g_log = <<>>
    /\ g_calls = <<>>
    /\ g_result = [status |-> "none"]

\* The parts of the state that belong to the builders and to the
\* window-by-window view of the generator.
RequestIdle == LlmIdle /\ FnIdle /\ GenIdle

-----------------------------------------------------------------------------
(* Questions.  A question is a function from the keys it carries to their  *)
(* values; a key the dict lacks is outside its DOMAIN.                     *)

Range(f) == {f[i] : i \in DOMAIN f}

Without(q, k) == [f \in (DOMAIN q) \ {k} |-> q[f]]

With(q, k, v) == [f \in (DOMAIN q) \cup {k} |-> IF f = k THEN v ELSE q[f]]

Choice(cid, txt) == [id |-> cid, text |-> txt]

TwoChoices == <<Choice("c1", "alpha"), Choice("c2", "beta")>>
ThreeChoices == <<Choice("c1", "alpha"), Choice("c2", "beta"), Choice("c3", "gamma")>>
DuplicateIdChoices == <<Choice("c1", "alpha"), Choice("c1", "beta")>>
EmptyIdChoices == <<Choice("", "alpha"), Choice("c2", "beta")>>

Draft(qtype, stem, choices, correct) ==
    [question_type |-> qtype, stem |-> stem, choices |-> choices,
     correct_choice_ids |-> correct, chunk_id |-> ChunkId(1), explanation |-> ""]

\* The questions the inputs are drawn from: well-formed ones of both types
\* and both choice counts, and ones that break each validation rule.
SampleQuestions ==
    { Draft("MCQ",  "s1", TwoChoices, <<"c1">>),
      Draft("MCQ",  "s2", TwoChoices, <<"c1", "c2">>),
      Draft("SATA", "s3", TwoChoices, <<"c2", "c1">>),
      Draft("SATA", "s4", ThreeChoices, <<"c3", "c1">>),
      Draft("MCQ",  "s5", ThreeChoices, <<"c2">>),
      Draft("SATA", "s6", DuplicateIdChoices, <<"c1">>),
      Draft("MCQ",  "s7", EmptyIdChoices, <<"c2">>),
      Draft("SATA", "s8", TwoChoices, <<>>),
      Draft("MCQ",  "s9", TwoChoices, <<"c3">>),
      Draft("SATA", "s10", TwoChoices, <<"c1", "c3">>),
      Without(Draft("MCQ",  "s11", TwoChoices, <<"c1">>), "stem"),
      Without(Draft("SATA", "s12", TwoChoices, <<"c1">>), "choices"),
      Without(Draft("MCQ",  "s13", TwoChoices, <<"c1">>), "correct_choice_ids"),
      Without(Draft("SATA", "s14", TwoChoices, <<"c1">>), "chunk_id"),
      Without(Draft("MCQ",  "s15", TwoChoices, <<"c2">>), "question_type"),
      Without(Draft("MCQ",  "s16", TwoChoices, <<"c2">>), "explanation"),
      With(Draft("SATA", "s17", TwoChoices, <<"c1">>), "explanation", "kept") }

SeqsUpTo(S, n) == UNION {[1..k -> S] : k \in 0..n}

-----------------------------------------------------------------------------
(* postprocess_questions, postprocess.py:7-61 *)

RequiredKeys == {"stem", "choices", "correct_choice_ids", "chunk_id"}

\* choice_ids = [c.get("id") for c in choices]
ChoiceIds(q) == [i \in 1..Len(q.choices) |-> q.choices[i].id]

\* Mutant: the MCQ rule is not enforced.
ValidationError_NoMcqRule(q, qtype, cpq) ==
    IF \E k \in RequiredKeys : k \notin DOMAIN q
      THEN "Question missing key"
    ELSE IF "question_type" \notin DOMAIN q \/ q.question_type # qtype
      THEN "Question type mismatch with config"
    ELSE IF Len(q.choices) # cpq
      THEN "Choices count mismatch"
    ELSE IF \/ \E i \in 1..Len(q.choices) : ChoiceIds(q)[i] = ""
            \/ Cardinality(Range(ChoiceIds(q))) # Len(q.choices)
      THEN "Choice ids must be unique and non-empty"
    ELSE IF Len(q.correct_choice_ids) < 1
      THEN "correct_choice_ids must be a non-empty list"
    ELSE IF \E i \in 1..Len(q.correct_choice_ids) :
                q.correct_choice_ids[i] \notin Range(ChoiceIds(q))
      THEN "correct_choice_ids must refer to existing choices"
    ELSE "ok"

\* Mutant: correct ids are not checked against the choices.
ValidationError_NoSubsetRule(q, qtype, cpq) ==
    IF \E k \in RequiredKeys : k \notin DOMAIN q
      THEN "Question missing key"
    ELSE IF "question_type" \notin DOMAIN q \/ q.question_type # qtype
      THEN "Question type mismatch with config"
    ELSE IF Len(q.choices) # cpq
      THEN "Choices count mismatch"
    ELSE IF \/ \E i \in 1..Len(q.choices) : ChoiceIds(q)[i] = ""
            \/ Cardinality(Range(ChoiceIds(q))) # Len(q.choices)
      THEN "Choice ids must be unique and non-empty"
    ELSE IF Len(q.correct_choice_ids) < 1
      THEN "correct_choice_ids must be a non-empty list"
    ELSE IF qtype = "MCQ" /\ Len(q.correct_choice_ids) # 1
      THEN "MCQ must have exactly 1 correct choice"
    ELSE "ok"

\* The body of the validation loop for one question (lines 17-43): the
\* message of the first check that fails, in the code's order, or "ok".
ValidationError(q, qtype, cpq) ==
    IF \E k \in RequiredKeys : k \notin DOMAIN q
      THEN "Question missing key"
    ELSE IF "question_type" \notin DOMAIN q \/ q.question_type # qtype
      THEN "Question type mismatch with config"
    ELSE IF Len(q.choices) # cpq
      THEN "Choices count mismatch"
    ELSE IF \/ \E i \in 1..Len(q.choices) : ChoiceIds(q)[i] = ""
            \/ Cardinality(Range(ChoiceIds(q))) # Len(q.choices)
      THEN "Choice ids must be unique and non-empty"
    ELSE IF Len(q.correct_choice_ids) < 1
      THEN "correct_choice_ids must be a non-empty list"
    ELSE IF qtype = "MCQ" /\ Len(q.correct_choice_ids) # 1
      THEN "MCQ must have exactly 1 correct choice"
    ELSE IF \E i \in 1..Len(q.correct_choice_ids) :
                q.correct_choice_ids[i] \notin Range(ChoiceIds(q))
      THEN "correct_choice_ids must refer to existing choices"
    ELSE "ok"

\* The index of the question at which the loop raises, 0 when it does not.
FirstInvalid(qs, qtype, cpq) ==
    LET bad == {i \in 1..Len(qs) : ValidationError(qs[i], qtype, cpq) # "ok"}
    IN  IF bad = {} THEN 0 ELSE CHOOSE i \in bad : \A j \in bad : i <= j

\* Mutant: the explanation is reset even when the question has one.
SetDefaultExplanation_Overwrites(q) == With(q, "explanation", "")

\* q.setdefault("explanation", "")
SetDefaultExplanation(q) ==
    IF "explanation" \in DOMAIN q THEN q ELSE With(q, "explanation", "")

\* Mutant: the shuffle fills the list with one and the same question.
ShuffleQuestions_Repeats(qs, p) == [i \in 1..Len(qs) |-> qs[p[1]]]

\* random.shuffle(questions), with p the permutation the shuffle drew
ShuffleQuestions(qs, p) == [i \in 1..Len(qs) |-> qs[p[i]]]

\* Mutant: the shuffle moves the choice texts and leaves the ids in place.
ShuffleChoices_TextsOnly(q, p) ==
    With(q, "choices",
         [i \in 1..Len(q.choices) |-> Choice(q.choices[i].id, q.choices[p[i]].text)])

\* random.shuffle(q["choices"]), with p the permutation the shuffle drew
ShuffleChoices(q, p) ==
    With(q, "choices", [i \in 1..Len(q.choices) |-> q.choices[p[i]]])

\* f"q_{i:04d}"
QuestionId(i) == <<"q", "_">> \o ZeroPad(i, 4)

\* Mutant: the sequence numbers start at 0.
AssignIds_ZeroBased(qs) == [i \in 1..Len(qs) |-> With(qs[i], "id", QuestionId(i - 1))]

\* Mutant: the numbering goes on from the ids the list already carries.
AssignIds_KeepCounting(qs) ==
    LET had == Cardinality({j \in 1..Len(qs) : "id" \in DOMAIN qs[j]})
    IN  [i \in 1..Len(qs) |-> With(qs[i], "id", QuestionId(had + i))]

\* for i, q in enumerate(questions, start=1): q["id"] = f"q_{i:04d}"
AssignIds(qs) == [i \in 1..Len(qs) |-> With(qs[i], "id", QuestionId(i))]

\* The outcomes random.shuffle can draw for a list of n elements.
ShuffleOutcomes(n) == Permutations(1..n)

Identity(n) == [i \in 1..n |-> i]

\* Mutant: the id is assigned inside the validation loop, so that the
\* questions before the one that raises already carry one.
postprocess_questions_IdsWhileValidating(qs, qtype, cpq, rq, ro, qperm, cperms) ==
    LET k == FirstInvalid(qs, qtype, cpq)
    IN  IF k # 0
        THEN [raised |-> TRUE,
              error |-> ValidationError(qs[k], qtype, cpq),
              questions |-> [i \in 1..Len(qs) |->
                               IF i < k
                               THEN With(SetDefaultExplanation(qs[i]), "id", QuestionId(i))
                               ELSE qs[i]]]
        ELSE LET validated == [i \in 1..Len(qs) |-> SetDefaultExplanation(qs[i])]
                 shuffled == IF rq THEN ShuffleQuestions(validated, qperm) ELSE validated
                 options == IF ro
                            THEN [i \in 1..Len(qs) |-> ShuffleChoices(shuffled[i], cperms[i])]
                            ELSE shuffled
             IN  [raised |-> FALSE, error |-> "ok", questions |-> AssignIds(options)]

\* The whole function.  qperm and cperms are what the shuffles draw.  The
\* result tells whether it raised, and the state the list object is left in
\* (the function mutates its argument and, on success, returns it).
postprocess_questions(qs, qtype, cpq, rq, ro, qperm, cperms) ==
    LET k == FirstInvalid(qs, qtype, cpq)
    IN  IF k # 0
        THEN [raised |-> TRUE,
              error |-> ValidationError(qs[k], qtype, cpq),
              questions |-> [i \in 1..Len(qs) |->
                               IF i < k THEN SetDefaultExplanation(qs[i]) ELSE qs[i]]]
        ELSE LET validated == [i \in 1..Len(qs) |-> SetDefaultExplanation(qs[i])]
                 shuffled == IF rq THEN ShuffleQuestions(validated, qperm) ELSE validated
                 options == IF ro
                            THEN [i \in 1..Len(qs) |-> ShuffleChoices(shuffled[i], cperms[i])]
                            ELSE shuffled
             IN  [raised |-> FALSE, error |-> "ok", questions |-> AssignIds(options)]

\* What the two shuffles may draw for a call on qs (nothing when the call
\* raises or the flag is off).
QuestionDraws(qs, qtype, cpq, rq) ==
    IF rq /\ FirstInvalid(qs, qtype, cpq) = 0
    THEN ShuffleOutcomes(Len(qs)) ELSE {Identity(Len(qs))}

ChoiceDraws(qs, qtype, cpq, ro) ==
    IF ro /\ FirstInvalid(qs, qtype, cpq) = 0
    THEN [1..Len(qs) -> ShuffleOutcomes(cpq)] ELSE {[i \in 1..Len(qs) |-> Identity(cpq)]}

ConfigIdle ==
    /\ question_type = "MCQ"
    /\ choices_per_question = 2
    /\ randomize_questions = FALSE
    /\ randomize_options = FALSE

ConfigInit ==
    /\ question_type \in {"MCQ", "SATA"}
    /\ choices_per_question \in {2, 3}
    /\ randomize_questions \in BOOLEAN
    /\ randomize_options \in BOOLEAN

\* The configurations of the generation runs: both question types and all
\* randomization flags, with two choices per question.
RunConfigInit ==
    /\ question_type \in {"MCQ", "SATA"}
    /\ choices_per_question = 2
    /\ randomize_questions \in BOOLEAN
    /\ randomize_options \in BOOLEAN

PostprocessIdle ==
    /\ questions = <<>>
    /\ pp_input = <<>>
    /\ pp_pc = "idle"

PostprocessInit ==
    /\ questions \in SeqsUpTo(SampleQuestions, MaxQuestions)
    /\ pp_input = questions
    /\ pp_pc = "call"

\* One call of postprocess_questions(questions, ...).
Postprocess ==
    /\ pp_pc = "call"
    /\ \E qperm \in QuestionDraws(questions, question_type, choices_per_question,
                                  randomize_questions) :
       \E cperms \in ChoiceDraws(questions, question_type, choices_per_question,
                                 randomize_options) :
          LET r == postprocess_questions(questions, question_type, choices_per_question,
                                         randomize_questions, randomize_options,
                                         qperm, cperms)
          IN  /\ questions' = r.questions
              /\ pp_pc' = IF r.raised THEN "raised" ELSE "returned"
    /\ UNCHANGED <<pp_input, cfgVars, mcVars, runVars, exVars, requestVars>>

\* A second call on the list the first call returned, with
\* randomize_questions = randomize_options = False.
PostprocessAgain ==
    /\ pp_pc = "returned"
    /\ LET r == postprocess_questions(questions, question_type, choices_per_question,
                                      FALSE, FALSE, Identity(Len(questions)),
                                      [i \in 1..Len(questions) |->
                                          Identity(choices_per_question)])
       IN  /\ pp_input' = questions
           /\ questions' = r.questions
           /\ pp_pc' = IF r.raised THEN "raised_again" ELSE "returned_again"
    /\ UNCHANGED <<cfgVars, mcVars, runVars, exVars, requestVars>>

InitPost ==
    PostprocessInit /\ ConfigInit /\ MakeChunksIdle /\ RunIdle /\ ExplainIdle /\ RequestIdle

NextPost ==
    \/ Postprocess
    \/ PostprocessAgain

SpecPost == InitPost /\ [][NextPost]_vars

-----------------------------------------------------------------------------
(* The oracle, and one window's generation:                                *)
(* call_responses_structured (llm_client.py:35-90) and                     *)
(* llm_generate_questions_for_chunk (generate.py:20-120)                   *)

\* retries: int = 3
Retries == 3

Item(stem, choices, correct) ==
    [stem |-> stem, choices |-> choices, correct_choice_ids |-> correct]

\* What the oracle's output_text may parse to: objects that conform to the
\* declared schema and objects that do not.
OracleData ==
    { [refusal |-> "no questions key"],
      [questions |-> <<>>],
      [questions |-> <<Item("s1", TwoChoices, <<"c1">>)>>],
      [questions |-> <<Item("s2", TwoChoices, <<"c1", "c2">>)>>],
      [questions |-> <<Item("s3", ThreeChoices, <<"c2">>)>>],
      [questions |-> <<Item("s4", TwoChoices, <<"c3">>)>>],
      [questions |-> <<Without(Item("s5", TwoChoices, <<"c1">>), "stem")>>],
      [questions |-> <<Item("s6", TwoChoices, <<"c2">>),
                       Item("s7", DuplicateIdChoices, <<"c1">>)>>] }

\* An oracle call ends in an exception of the client, in text that is not
\* JSON, or in text that parses to some object.
Responses ==
    {[kind |-> "call_error"], [kind |-> "unparsable"]}
        \cup {[kind |-> "json", data |-> d] : d \in OracleData}

\* call_responses_structured: client.responses.create(**req) may raise;
\* json.loads(raw_text) raises on text that is not JSON; otherwise the
\* parsed object is returned as it is (it is not checked against the schema).
call_responses_structured(resp) ==
    IF resp.kind = "json"
    THEN [raised |-> FALSE, data |-> resp.data]
    ELSE [raised |-> TRUE, data |-> <<>>]

\* Mutant: one attempt too many.
RetryAllowed_OffByOne(a, retries) == a <= retries

\* if attempt < retries: continue
RetryAllowed(a, retries) == a < retries

ItemKeys == {"stem", "choices", "correct_choice_ids"}

\* data["questions"], q["stem"], q["choices"], q["correct_choice_ids"]: a
\* missing key raises KeyError (generate.py:106-115, outside the try).
MappingRaises(data) ==
    \/ "questions" \notin DOMAIN data
    \/ \E i \in 1..Len(data.questions) :
          \E k \in ItemKeys : k \notin DOMAIN data.questions[i]

\* Mutant: every draft is tagged with the id of the first window.
MapItems_FirstWindowId(data, qtype, cid) ==
    [i \in 1..Len(data.questions) |->
        [question_type |-> qtype,
         stem |-> data.questions[i].stem,
         choices |-> data.questions[i].choices,
         correct_choice_ids |-> data.questions[i].correct_choice_ids,
         chunk_id |-> ChunkId(1),
         explanation |-> ""]]

\* The draft questions built from the returned items (generate.py:106-115).
MapItems(data, qtype, cid) ==
    [i \in 1..Len(data.questions) |->
        [question_type |-> qtype,
         stem |-> data.questions[i].stem,
         choices |-> data.questions[i].choices,
         correct_choice_ids |-> data.questions[i].correct_choice_ids,
         chunk_id |-> cid,
         explanation |-> ""]]

\* generation_schema (llm_schemas.py:20-59): the schema the request declares.
ConformsToSchema(data, cpq) ==
    /\ DOMAIN data = {"questions"}
    /\ Len(data.questions) >= 1
    /\ \A i \in 1..Len(data.questions) :
          LET q == data.questions[i]
          IN  /\ DOMAIN q = ItemKeys
              /\ q.stem # ""
              /\ Len(q.choices) = cpq
              /\ \A j \in 1..Len(q.choices) :
                    q.choices[j].id # "" /\ q.choices[j].text # ""
              /\ Len(q.correct_choice_ids) >= 1
              /\ \A j \in 1..Len(q.correct_choice_ids) : q.correct_choice_ids[j] # ""

-----------------------------------------------------------------------------
(* run_generate_pipeline, pipeline.py:17-134 *)

\* Lines 110-132: postprocess_questions on the aggregated list, then
\* write_json(output.json); a raise of postprocess_questions ends the run
\* before the write.
FinishRun(allq) ==
    \E qperm \in QuestionDraws(allq, question_type, choices_per_question,
                               randomize_questions) :
    \E cperms \in ChoiceDraws(allq, question_type, choices_per_question,
                              randomize_options) :
       LET r == postprocess_questions(allq, question_type, choices_per_question,
                                      randomize_questions, randomize_options,
                                      qperm, cperms)
       IN  /\ pp_input' = allq
           /\ questions' = r.questions
           /\ all_questions' = r.questions
           /\ pp_pc' = IF r.raised THEN "raised" ELSE "returned"
           /\ IF r.raised
              THEN /\ pc' = "aborted"
                   /\ error' = r.error
                   /\ UNCHANGED output
              ELSE /\ pc' = "done"
                   /\ UNCHANGED error
                   /\ output' = [written |-> TRUE,
                                 schema_version |-> 1,
                                 settings |-> [question_type |-> question_type,
                                               choices_per_question |-> choices_per_question,
                                               randomize_questions |-> randomize_questions,
                                               randomize_options |-> randomize_options],
                                 questions |-> r.questions]

\* Mutant: progress is only reported for a window that returned questions.
WindowReturns_SilentOnEmpty(qs, status) ==
    /\ wstatus' = [wstatus EXCEPT ![chunk_index] = status]
    /\ contrib' = [contrib EXCEPT ![chunk_index] = qs]
    /\ progress' = IF qs = <<>> THEN progress
                   ELSE Append(progress, <<chunk_index, Len(chunks)>>)
    /\ IF chunk_index < Len(chunks)
       THEN /\ chunk_index' = chunk_index + 1
            /\ attempt' = 1
            /\ all_questions' = all_questions \o qs
            /\ UNCHANGED <<pc, output, error, ppVars>>
       ELSE /\ UNCHANGED <<chunk_index, attempt>>
            /\ FinishRun(all_questions \o qs)

\* Lines 104-108 and on: the window's call returned qs; extend the list,
\* report progress, then go to the next window or finish the run.
WindowReturns(qs, status) ==
    /\ wstatus' = [wstatus EXCEPT ![chunk_index] = status]
    /\ contrib' = [contrib EXCEPT ![chunk_index] = qs]
    /\ progress' = Append(progress, <<chunk_index, Len(chunks)>>)
    /\ IF chunk_index < Len(chunks)
       THEN /\ chunk_index' = chunk_index + 1
            /\ attempt' = 1
            /\ all_questions' = all_questions \o qs
            /\ UNCHANGED <<pc, output, error, ppVars>>
       ELSE /\ UNCHANGED <<chunk_index, attempt>>
            /\ FinishRun(all_questions \o qs)

\* Bookkeeping of the oracle calls: one more call for the current window,
\* failed of them ending in an exception.
CountCall(failed) ==
    /\ last_window' = chunk_index
    /\ calls' = IF last_window = chunk_index THEN calls + 1 ELSE 1
    /\ failures' = IF last_window = chunk_index THEN failures + failed ELSE failed

\* An attempt whose call raises (generate.py:72-104): retry while attempts
\* remain, else the window returns [].
AttemptFails ==
    /\ pc = "generate"
    /\ chunk_index <= Len(chunks)
    /\ \E resp \in Responses :
          /\ call_responses_structured(resp).raised
          /\ response' = resp
    /\ CountCall(1)
    /\ IF RetryAllowed(attempt, Retries)
       THEN /\ attempt' = attempt + 1
            /\ UNCHANGED <<pc, chunk_index, all_questions, output, wstatus,
                           contrib, progress, error, ppVars>>
       ELSE WindowReturns(<<>>, "exhausted")
    /\ UNCHANGED <<mcVars, cfgVars, exVars, requestVars>>

\* An attempt whose call returns parsed data (generate.py:74-85, 106-120):
\* the retry loop is left and the items are mapped; a missing key raises out
\* of llm_generate_questions_for_chunk and out of the run.
AttemptReturns ==
    /\ pc = "generate"
    /\ chunk_index <= Len(chunks)
    /\ \E resp \in Responses :
          LET r == call_responses_structured(resp)
          IN  /\ ~r.raised
              /\ response' = resp
              /\ IF MappingRaises(r.data)
                 THEN /\ pc' = "aborted"
                      /\ error' = "KeyError"
                      /\ wstatus' = [wstatus EXCEPT ![chunk_index] = "raised"]
                      /\ UNCHANGED <<chunk_index, attempt, all_questions, output,
                                     contrib, progress, ppVars>>
                 ELSE WindowReturns(MapItems(r.data, question_type,
                                             chunks[chunk_index].chunk_id), "ok")
    /\ CountCall(0)
    /\ UNCHANGED <<mcVars, cfgVars, exVars, requestVars>>

\* A document without pages: the loop over chunks has nothing to do.
RunWithoutWindows ==
    /\ pc = "generate"
    /\ Len(chunks) = 0
    /\ FinishRun(all_questions)
    /\ UNCHANGED <<chunk_index, attempt, response, last_window, calls, failures,
                   wstatus, contrib, progress>>
    /\ UNCHANGED <<mcVars, cfgVars, exVars, requestVars>>

\* The run after make_chunks returned (pipeline.py:72-89), with the real
\* client (use_mock_llm = False).
InitRun ==
    /\ total_pages \in 0..MaxRunPages
    /\ pages_per_partition \in 1..MaxPagesPerPartition
    /\ overlap_pages \in 0..(pages_per_partition - 1)
    /\ start = 1
    /\ idx = 1
    /\ chunks = make_chunks(total_pages, pages_per_partition, overlap_pages)
    /\ mc_pc = "done"
    /\ RunConfigInit
    /\ PostprocessIdle
    /\ pc = "generate"
    /\ chunk_index = 1
    /\ attempt = 1
    /\ all_questions = <<>>
    /\ output = [written |-> FALSE]
    /\ response = [kind |-> "none"]
    /\ last_window = 0
    /\ calls = 0
    /\ failures = 0
    /\ wstatus = [w \in 1..Len(chunks) |-> "pending"]
    /\ contrib = [w \in 1..Len(chunks) |-> <<>>]
    /\ progress = <<>>
    /\ error = ""
    /\ ExplainIdle
    /\ RequestIdle

Init == InitRun

Next ==
    \/ AttemptFails
    \/ AttemptReturns
    \/ RunWithoutWindows

Spec == Init /\ [][Next]_vars

-----------------------------------------------------------------------------
(* The enricher: the explain command (cli.py:241-298) and                  *)
(* add_explanations_for_wrong_questions (explain.py:82-177).               *)
(* The texts this part builds or receives are sequences of tokens, a token *)
(* being a character or a piece of text that is carried as it is.          *)

MaxWrongIds == 2

\* retries: int = 3 (the explain command does not pass another value)
ExplainRetries == 3

\* JSON values of the wrong-ids document
JString(v) == [type |-> "string", value |-> v]
JNumber(v) == [type |-> "number", value |-> v]
JList(items) == [type |-> "list", items |-> items]

\* Mutant: only the outer type is checked.
IsListOfStrings_ListOnly(v) == v.type = "list"

\* isinstance(wrong_ids, list) and all(isinstance(x, str) for x in wrong_ids)
IsListOfStrings(v) ==
    /\ v.type = "list"
    /\ \A i \in 1..Len(v.items) : v.items[i].type = "string"

\* wrong_obj.get("wrong_question_ids", [])
WrongQuestionIds(doc) ==
    IF "wrong_question_ids" \in DOMAIN doc THEN doc.wrong_question_ids ELSE JList(<<>>)

\* The ids a wrong-ids document may name: two that exist in the outputs
\* below and one that does not.
IdPool == {QuestionId(1), QuestionId(2), QuestionId(9999)}

WellFormedDocs ==
    {[wrong_question_ids |-> JList([i \in 1..Len(ids) |-> JString(ids[i])])] :
        ids \in SeqsUpTo(IdPool, MaxWrongIds)}
        \cup {[note |-> "no wrong_question_ids key"]}

MalformedDocs ==
    { [wrong_question_ids |-> JString(QuestionId(1))],
      [wrong_question_ids |-> JNumber(<<"1">>)],
      [wrong_question_ids |-> JList(<<JString(QuestionId(1)), JNumber(<<"2">>)>>)] }

WrongDocs == WellFormedDocs \cup MalformedDocs

\* The output.json files of earlier runs: validated questions with their
\* ids, the choices in the order the run left them in.
ExplainQuestion(qtype, stem, choices, correct, text) ==
    With(Draft(qtype, stem, choices, correct), "explanation", text)

OutputOf(qtype, cpq, qs) ==
    [schema_version |-> 1,
     run_id |-> "run_1",
     context_file |-> "context.pdf",
     settings |-> [question_type |-> qtype, choices_per_question |-> cpq,
                   randomize_questions |-> TRUE, randomize_options |-> TRUE],
     questions |-> AssignIds(qs)]

ExplainOutputs ==
    { OutputOf("SATA", 3,
        <<ExplainQuestion("SATA", "s1",
              <<Choice("c3", "gamma"), Choice("c1", "alpha"), Choice("c2", "beta")>>,
              <<"c2", "c3">>, <<>>),
          ExplainQuestion("SATA", "s2",
              <<Choice("c2", "beta"), Choice("c3", "gamma"), Choice("c1", "alpha")>>,
              <<"c1">>, <<"o", "l", "d">>)>>),
      OutputOf("MCQ", 2,
        <<ExplainQuestion("MCQ", "s3", <<Choice("c2", "beta"), Choice("c1", "alpha")>>,
              <<"c1">>, <<"o", "l", "d">>)>>) }

\* by_id = {q.get("id"): q for q in questions}; by_id.get(qid): the position
\* of the question the dictionary holds for qid (the last one with that id),
\* 0 when it holds none.
QuestionIndex_DefaultsToFirst(qs, qid) ==
    LET hits == {i \in 1..Len(qs) : "id" \in DOMAIN qs[i] /\ qs[i].id = qid}
    IN  IF hits = {} THEN (IF Len(qs) = 0 THEN 0 ELSE 1)
        ELSE CHOOSE i \in hits : \A j \in hits : j <= i

QuestionIndex(qs, qid) ==
    LET hits == {i \in 1..Len(qs) : "id" \in DOMAIN qs[i] /\ qs[i].id = qid}
    IN  IF hits = {} THEN 0 ELSE CHOOSE i \in hits : \A j \in hits : j <= i

\* chr(ord("A") + idx)
Letters == <<"A", "B", "C", "D", "E", "F", "G", "H", "I", "J", "K", "L", "M",
             "N", "O", "P", "Q", "R", "S", "T", "U", "V", "W", "X", "Y", "Z">>

Letter(i) == Letters[i + 1]

RECURSIVE Join(_, _)
\* sep.join(parts)
Join(parts, sep) ==
    IF Len(parts) = 0 THEN <<>>
    ELSE IF Len(parts) = 1 THEN parts[1]
    ELSE parts[1] \o <<sep>> \o Join(Tail(parts), sep)

\* text.replace("{", "{{").replace("}", "}}")
RECURSIVE escape_braces(_)
escape_braces(text) ==
    IF Len(text) = 0 THEN <<>>
    ELSE (IF Head(text) \in {"{", "}"} THEN <<Head(text), Head(text)>> ELSE <<Head(text)>>)
             \o escape_braces(Tail(text))

\* explain.py:28-35
format_choices_with_letters(choices) ==
    Join([i \in 1..Len(choices) |-> <<Letter(i - 1), ". ", choices[i].text>>], "\n")

\* Mutant: the correct answers are rendered by their stable ids.
LetterOfId_RawId(choices, cid) == cid

\* id_to_letter.get(cid, "?"), id_to_letter built by lines 39-43
LetterOfId(choices, cid) ==
    LET hits == {i \in 1..Len(choices) : choices[i].id # "" /\ choices[i].id = cid}
    IN  IF hits = {} THEN "?"
        ELSE Letter((CHOOSE i \in hits : \A j \in hits : j <= i) - 1)

\* explain.py:38-45
format_correct_letters(choices, correct_ids) ==
    Join([i \in 1..Len(correct_ids) |-> <<LetterOfId(choices, correct_ids[i])>>], ", ")

\* The variables built for render_explain_prompt (explain.py:121-128), stem
\* being the text of the question's stem.
ExplainVariables(stem, choices, correct_ids) ==
    [stem |-> escape_braces(stem),
     choices |-> escape_braces(format_choices_with_letters(choices)),
     correct_choice_ids |-> escape_braces(format_correct_letters(choices, correct_ids))]

\* The variables that render_explain_prompt substitutes into the template
\* (explain.py:117-128).
ExplainPrompt(q) == ExplainVariables(<<q.stem>>, q.choices, q.correct_choice_ids)

Whitespace == {" ", "\n", "\t"}

RECURSIVE LStrip(_)
LStrip(t) == IF Len(t) > 0 /\ Head(t) \in Whitespace THEN LStrip(Tail(t)) ELSE t

RECURSIVE RStrip(_)
RStrip(t) ==
    IF Len(t) > 0 /\ t[Len(t)] \in Whitespace THEN RStrip(SubSeq(t, 1, Len(t) - 1)) ELSE t

\* str.strip()
Strip(t) == RStrip(LStrip(t))

\* What output_text of an explanation call may be.
RawTexts == { <<" ", "y", "e", "s", "\n">>, <<"n", "o">> }

\* call_responses_text: client.responses.create raises, or the text of the
\* response is returned.
ExplainResponses ==
    {[kind |-> "call_error"]} \cup {[kind |-> "text", text |-> t] : t \in RawTexts}

\* The oracle of the first command answers anything; that of a repeated
\* command answers each call as the same call was answered before.
OracleAnswers ==
    IF ex_run = 1 THEN ExplainResponses
    ELSE IF Len(ex_log) < Len(ex_replay) THEN {ex_replay[Len(ex_log) + 1].resp}
    ELSE {}

\* Mutant: one attempt too many.
ExplainRetryAllowed_OffByOne(a, retries) == a <= retries

\* for attempt in range(1, retries + 1): another iteration follows attempt a
ExplainRetryAllowed(a, retries) == a < retries

\* Mutant: the text is written to every question.
SetExplanation_All(qs, i, text) ==
    [j \in 1..Len(qs) |-> With(qs[j], "explanation", text)]

\* Mutant: the text is added to the explanation that was there.
SetExplanation_Append(qs, i, text) ==
    [j \in 1..Len(qs) |->
        IF j = i
        THEN With(qs[j], "explanation",
                  (IF "explanation" \in DOMAIN qs[j] THEN qs[j].explanation ELSE <<>>)
                      \o text)
        ELSE qs[j]]

\* q["explanation"] = explanation, q being the i-th question of the output
SetExplanation(qs, i, text) ==
    [j \in 1..Len(qs) |-> IF j = i THEN With(qs[j], "explanation", text) ELSE qs[j]]

\* output.get("questions", [])
QuestionsOf(out) == IF "questions" \in DOMAIN out THEN out.questions ELSE <<>>

\* Mutant: the entry after the one just handled is passed over.
ExplainAdvance_SkipsNext(out) ==
    /\ ex_output' = out
    /\ IF ex_pos + 1 < Len(wrong_ids)
       THEN /\ ex_pos' = ex_pos + 2
            /\ ex_attempt' = 1
            /\ UNCHANGED <<ex_pc, output_file>>
       ELSE /\ ex_pc' = "done"
            /\ output_file' = out
            /\ UNCHANGED <<ex_pos, ex_attempt>>

\* The end of one iteration of `for qid in wrong_ids`, the output being out:
\* the next qid, or the return of the function and write_json (cli.py:293).
ExplainAdvance(out) ==
    /\ ex_output' = out
    /\ IF ex_pos < Len(wrong_ids)
       THEN /\ ex_pos' = ex_pos + 1
            /\ ex_attempt' = 1
            /\ UNCHANGED <<ex_pc, output_file>>
       ELSE /\ ex_pc' = "done"
            /\ output_file' = out
            /\ UNCHANGED <<ex_pos, ex_attempt>>

\* The command up to the loop over wrong_ids: read wrong_ids.json, reject a
\* malformed list, make the client, load output.json (cli.py:260-268,
\* explain.py:101-107).  An empty list goes straight to the write.
ExplainStart ==
    /\ ex_pc = "start"
    /\ LET v == WrongQuestionIds(wrong_doc)
       IN  IF ~IsListOfStrings(v)
           THEN /\ ex_pc' = "rejected"
                /\ UNCHANGED <<output_file, client_made, ex_loaded, ex_output, wrong_ids,
                               ex_pos, ex_attempt, updated, skipped_missing,
                               skipped_failed, ex_log>>
           ELSE /\ client_made' = TRUE
                /\ wrong_ids' = [i \in 1..Len(v.items) |-> v.items[i].value]
                /\ ex_loaded' = output_file
                /\ ex_output' = output_file
                /\ updated' = 0
                /\ skipped_missing' = 0
                /\ skipped_failed' = 0
                /\ ex_pos' = 1
                /\ ex_attempt' = 1
                /\ ex_log' = <<>>
                /\ ex_pc' = IF Len(v.items) = 0 THEN "done" ELSE "loop"
                /\ UNCHANGED output_file
    /\ UNCHANGED <<wrong_doc, ex_run, ex_replay>>
    /\ UNCHANGED <<mcVars, cfgVars, ppVars, runVars, requestVars>>

\* qid names no question: count it and go on (explain.py:110-115).
ExplainSkipMissing ==
    /\ ex_pc = "loop"
    /\ QuestionIndex(QuestionsOf(ex_output), wrong_ids[ex_pos]) = 0
    /\ skipped_missing' = skipped_missing + 1
    /\ ExplainAdvance(ex_output)
    /\ UNCHANGED <<wrong_doc, ex_run, client_made, ex_loaded, wrong_ids, updated,
                   skipped_failed, ex_log, ex_replay>>
    /\ UNCHANGED <<mcVars, cfgVars, ppVars, runVars, requestVars>>

LogEntry(q, resp) ==
    [pos |-> ex_pos, attempt |-> ex_attempt, prompt |-> ExplainPrompt(q), resp |-> resp]

\* An attempt whose call raises (explain.py:134-164): the next attempt, or
\* after the last one the qid is counted as failed.
ExplainAttemptFails ==
    /\ ex_pc = "loop"
    /\ LET k == QuestionIndex(QuestionsOf(ex_output), wrong_ids[ex_pos])
       IN  /\ k # 0
           /\ \E resp \in OracleAnswers :
                 /\ resp.kind = "call_error"
                 /\ ex_log' = Append(ex_log, LogEntry(QuestionsOf(ex_output)[k], resp))
    /\ IF ExplainRetryAllowed(ex_attempt, ExplainRetries)
       THEN /\ ex_attempt' = ex_attempt + 1
            /\ UNCHANGED <<ex_pc, output_file, ex_output, ex_pos, skipped_failed>>
       ELSE /\ skipped_failed' = skipped_failed + 1
            /\ ExplainAdvance(ex_output)
    /\ UNCHANGED <<wrong_doc, ex_run, client_made, ex_loaded, wrong_ids, updated,
                   skipped_missing, ex_replay>>
    /\ UNCHANGED <<mcVars, cfgVars, ppVars, runVars, requestVars>>

\* An attempt whose call returns text (explain.py:136-145, 166-167).
ExplainAttemptSucceeds ==
    /\ ex_pc = "loop"
    /\ LET k == QuestionIndex(QuestionsOf(ex_output), wrong_ids[ex_pos])
       IN  /\ k # 0
           /\ \E resp \in OracleAnswers :
                 /\ resp.kind = "text"
                 /\ ex_log' = Append(ex_log, LogEntry(QuestionsOf(ex_output)[k], resp))
                 /\ ExplainAdvance([ex_output EXCEPT !.questions =
                                       SetExplanation(ex_output.questions, k,
                                                      Strip(resp.text))])
    /\ updated' = updated + 1
    /\ UNCHANGED <<wrong_doc, ex_run, client_made, ex_loaded, wrong_ids, skipped_missing,
                   skipped_failed, ex_replay>>
    /\ UNCHANGED <<mcVars, cfgVars, ppVars, runVars, requestVars>>

\* The command is run once more on the same run folder with the same
\* wrong_ids.json.
ExplainAgain ==
    /\ ex_pc = "done"
    /\ ex_run = 1
    /\ ex_run' = 2
    /\ ex_pc' = "start"
    /\ client_made' = FALSE
    /\ ex_replay' = ex_log
    /\ UNCHANGED <<wrong_doc, output_file, ex_loaded, ex_output, wrong_ids, ex_pos,
                   ex_attempt, updated, skipped_missing, skipped_failed, ex_log>>
    /\ UNCHANGED <<mcVars, cfgVars, ppVars, runVars, requestVars>>

InitExplain ==
    /\ wrong_doc \in WrongDocs
    /\ output_file \in ExplainOutputs
    /\ ex_pc = "start"
    /\ ex_run = 1
    /\ client_made = FALSE
    /\ ex_loaded = [questions |-> <<>>]
    /\ ex_output = [questions |-> <<>>]
    /\ wrong_ids = <<>>
    /\ ex_pos = 1
    /\ ex_attempt = 1
    /\ updated = 0
    /\ skipped_missing = 0
    /\ skipped_failed = 0
    /\ ex_log = <<>>
    /\ ex_replay = <<>>
    /\ MakeChunksIdle /\ ConfigIdle /\ PostprocessIdle /\ RunIdle /\ RequestIdle

NextExplain ==
    \/ ExplainStart
    \/ ExplainSkipMissing
    \/ ExplainAttemptFails
    \/ ExplainAttemptSucceeds
    \/ ExplainAgain

SpecExplain == InitExplain /\ [][NextExplain]_vars

-----------------------------------------------------------------------------
(* The prompt and request builders: render_generator_prompt               *)
(* (generate.py:14-18), render_explain_prompt (explain.py:11-13), the      *)
(* request of call_responses_structured (llm_client.py:50-79) and of       *)
(* call_responses_text (explain.py:61-76).  A template is a sequence of    *)
(* tokens in which "{", a name and "}" make a placeholder and a doubled    *)
(* brace stands for the brace itself.                                      *)

MaxTextLen == 3

Drop(t, n) == SubSeq(t, n + 1, Len(t))

\* str.format(**variables) raises: a placeholder that names no variable
\* (KeyError) or a single brace (ValueError).
RECURSIVE FormatRaises(_, _)
FormatRaises(t, variables) ==
    IF Len(t) = 0 THEN FALSE
    ELSE IF t[1] = "{"
      THEN IF Len(t) >= 2 /\ t[2] = "{" THEN FormatRaises(Drop(t, 2), variables)
           ELSE IF Len(t) >= 3 /\ t[3] = "}" /\ t[2] \in DOMAIN variables
             THEN FormatRaises(Drop(t, 3), variables)
           ELSE TRUE
    ELSE IF t[1] = "}"
      THEN IF Len(t) >= 2 /\ t[2] = "}" THEN FormatRaises(Drop(t, 2), variables)
           ELSE TRUE
    ELSE FormatRaises(Drop(t, 1), variables)

\* str.format(**variables) of a template that does not raise: doubled
\* braces of the template become single, a placeholder becomes the value of
\* its variable, which is copied as it is.
RECURSIVE FormatText(_, _)
FormatText(t, variables) ==
    IF Len(t) = 0 THEN <<>>
    ELSE IF t[1] \in {"{", "}"}
      THEN IF t[2] = t[1] THEN <<t[1]>> \o FormatText(Drop(t, 2), variables)
           ELSE variables[t[2]] \o FormatText(Drop(t, 3), variables)
    ELSE <<t[1]>> \o FormatText(Drop(t, 1), variables)

Format(t, variables) ==
    IF FormatRaises(t, variables)
    THEN [raised |-> TRUE, text |-> <<>>]
    ELSE [raised |-> FALSE, text |-> FormatText(t, variables)]

\* The prompt files of a configuration.
UserPromptFile ==
    <<"Write ", "{", "questions_per_partition", "}", " ", "{", "question_type", "}",
      " questions with ", "{", "choices_per_question", "}", " choices each.", "\n">>

FixedPromptFile ==
    <<"Answer with JSON like ", "{", "{", "questions", "}", "}", ".", "\n",
      "{", "correct_counts_note", "}", "\n",
      "Context:", "\n", "{", "context", "}", "\n", "End of context.", "\n">>

ExplainPromptFile ==
    <<"Question: ", "{", "stem", "}", "\n",
      "{", "choices", "}", "\n",
      "Correct: ", "{", "correct_choice_ids", "}", "\n",
      "Explain the answer.">>

\* generate.py:14-18
render_generator_prompt(user_text, fixed_text, variables) ==
    Format(Strip(Strip(user_text) \o <<"\n", "\n">> \o Strip(fixed_text)), variables)

\* explain.py:11-13
render_explain_prompt(template, variables) == Format(template, variables)

\* generate.py:46-53: the note is empty unless the type is SATA
CorrectCountsNote(qtype, counts) ==
    IF qtype = "SATA"
    THEN <<"SATA only: Use these exact correct-choice counts per question, in order: ">>
             \o Join([i \in 1..Len(counts) |-> Digits(counts[i])], ", ") \o <<".">>
    ELSE <<>>

\* Mutant: the chunk text is substituted as it is.
GeneratorVariables_NoEscape(qtype, cpq, qpp, chunk_text, counts) ==
    [question_type |-> <<qtype>>,
     choices_per_question |-> Digits(cpq),
     questions_per_partition |-> Digits(qpp),
     context |-> chunk_text,
     correct_counts_note |-> CorrectCountsNote(qtype, counts)]

\* generate.py:58-64
GeneratorVariables(qtype, cpq, qpp, chunk_text, counts) ==
    [question_type |-> <<qtype>>,
     choices_per_question |-> Digits(cpq),
     questions_per_partition |-> Digits(qpp),
     context |-> escape_braces(chunk_text),
     correct_counts_note |-> CorrectCountsNote(qtype, counts)]

\* float(temperature)
Float(t) == IF t = "1" THEN "1.0" ELSE t

\* Mutant: a given temperature is always sent.
structured_request_AlwaysTemperature(prompt, effort, temp) ==
    LET req == [model |-> "model", input |-> prompt, max_output_tokens |-> 4000,
                reasoning |-> [effort |-> effort],
                text |-> [format |-> [type |-> "json_schema", strict |-> TRUE]]]
    IN  IF temp # "None" THEN With(req, "temperature", Float(temp)) ELSE req

\* llm_client.py:50-75: the request of call_responses_structured
structured_request(prompt, effort, temp) ==
    LET req == [model |-> "model", input |-> prompt, max_output_tokens |-> 4000,
                reasoning |-> [effort |-> effort],
                text |-> [format |-> [type |-> "json_schema", strict |-> TRUE]]]
    IN  IF temp # "None" /\ effort = "none"
        THEN With(req, "temperature", Float(temp))
        ELSE req

\* explain.py:61-74: the request of call_responses_text
text_request(prompt, effort, temp) ==
    LET req == [model |-> "model", input |-> prompt, max_output_tokens |-> 500,
                reasoning |-> [effort |-> effort]]
    IN  IF temp # "None" /\ effort = "none"
        THEN With(req, "temperature", Float(temp))
        ELSE req

Efforts == {"none", "low", "medium", "high", "xhigh"}

Temperatures == {"None", "0.2", "1"}

\* Texts made of braces and of a word that is the name of a placeholder.
TextTokens == {"{", "}", "stem"}

Texts == SeqsUpTo(TextTokens, MaxTextLen)

InitFn ==
    /\ fn_text \in Texts
    /\ reasoning_effort \in Efforts
    /\ temperature \in Temperatures
    /\ questions_per_partition = 1
    /\ fn_op = "none"
    /\ fn_result = [raised |-> FALSE]
    /\ GenIdle
    /\ MakeChunksIdle /\ ConfigIdle /\ PostprocessIdle /\ RunIdle /\ ExplainIdle

\* The prompt of llm_generate_questions_for_chunk for a window whose text
\* is fn_text (generate.py:55-65).
RenderGeneratorPrompt ==
    /\ fn_op = "none"
    /\ fn_op' = "render_generator_prompt"
    /\ LET variables == GeneratorVariables(question_type, choices_per_question,
                                           questions_per_partition, fn_text, <<>>)
           r == render_generator_prompt(UserPromptFile, FixedPromptFile, variables)
       IN  fn_result' = [raised |-> r.raised, prompt |-> r.text, variables |-> variables]
    /\ UNCHANGED <<fn_text, llmVars, genVars>>
    /\ UNCHANGED <<mcVars, cfgVars, ppVars, runVars, exVars>>

\* The question the enricher is given in RenderExplainPrompt: its stem is
\* fn_text and its first choice reads as the first token of fn_text.
FnQuestionChoices ==
    <<Choice("c2", IF Len(fn_text) > 0 THEN fn_text[1] ELSE "beta"), Choice("c1", "alpha")>>

\* The prompt of add_explanations_for_wrong_questions for that question
\* (explain.py:117-128).
RenderExplainPrompt ==
    /\ fn_op = "none"
    /\ fn_op' = "render_explain_prompt"
    /\ LET variables == ExplainVariables(fn_text, FnQuestionChoices, <<"c1">>)
           r == render_explain_prompt(ExplainPromptFile, variables)
       IN  fn_result' = [raised |-> r.raised, prompt |-> r.text, variables |-> variables]
    /\ UNCHANGED <<fn_text, llmVars, genVars>>
    /\ UNCHANGED <<mcVars, cfgVars, ppVars, runVars, exVars>>

\* call_responses_structured up to client.responses.create(**req).
BuildStructuredRequest ==
    /\ fn_op = "none"
    /\ fn_op' = "call_responses_structured"
    /\ fn_result' = [raised |-> FALSE,
                     req |-> structured_request(fn_text, reasoning_effort, temperature)]
    /\ UNCHANGED <<fn_text, llmVars, genVars>>
    /\ UNCHANGED <<mcVars, cfgVars, ppVars, runVars, exVars>>

\* call_responses_text up to client.responses.create(**req).
BuildTextRequest ==
    /\ fn_op = "none"
    /\ fn_op' = "call_responses_text"
    /\ fn_result' = [raised |-> FALSE,
                     req |-> text_request(fn_text, reasoning_effort, temperature)]
    /\ UNCHANGED <<fn_text, llmVars, genVars>>
    /\ UNCHANGED <<mcVars, cfgVars, ppVars, runVars, exVars>>

NextFn ==
    \/ RenderGeneratorPrompt
    \/ RenderExplainPrompt
    \/ BuildStructuredRequest
    \/ BuildTextRequest

SpecFn == InitFn /\ [][NextFn]_vars

-----------------------------------------------------------------------------
(* llm_generate_questions_for_chunk (generate.py:20-120), called for one   *)
(* window after the other, with the request of every oracle call.          *)

MaxQuestionsPerPartition == 2

MaxGenWindows == 2

\* The texts of the windows' pages.
ChunkTexts == { <<"page text">>, <<"f(x) = ", "{", "x", "}">> }

\* Mutant: a question may be given no correct choice at all.
CountDraws_FromZero(qtype, cpq, qpp) ==
    IF qtype = "SATA" THEN [1..qpp -> 0..cpq] ELSE {<<>>}

\* generate.py:47-48: random.randint(1, choices_per_q), once per question
\* of the window, for SATA only.
CountDraws(qtype, cpq, qpp) ==
    IF qtype = "SATA" THEN [1..qpp -> 1..cpq] ELSE {<<>>}

\* generate.py:55-65
GeneratorPrompt(chunk_text, counts) ==
    render_generator_prompt(UserPromptFile, FixedPromptFile,
        GeneratorVariables(question_type, choices_per_question,
                           questions_per_partition, chunk_text, counts))

\* The call of client.responses.create(**req) in the current attempt.
GenCall == [attempt |-> g_attempt,
            req |-> structured_request(g_prompt, reasoning_effort, temperature)]

\* llm_generate_questions_for_chunk returns or raises: the window is over.
GenEnds(status, qs) ==
    /\ g_pc' = IF status = "raised" THEN "raised" ELSE "returned"
    /\ g_result' = [status |-> status, questions |-> qs]
    /\ g_calls' = Append(g_calls, Len(g_log'))
    /\ UNCHANGED g_attempt

\* The call for the first window, or for the next one after the previous
\* call returned (pipeline.py:91-103), up to the retry loop
\* (generate.py:33-71): the counts are drawn and the prompt is rendered.
GenStart ==
    /\ \/ g_pc = "entry" /\ g_window' = g_window
       \/ g_pc = "returned" /\ g_window < MaxGenWindows /\ g_window' = g_window + 1
    /\ \E text \in ChunkTexts :
       \E counts \in CountDraws(question_type, choices_per_question,
                                questions_per_partition) :
          LET r == GeneratorPrompt(text, counts)
          IN  /\ g_chunk_text' = text
              /\ g_counts' = counts
              /\ g_prompt' = r.text
              /\ g_pc' = IF r.raised THEN "raised" ELSE "loop"
              /\ g_result' = [status |-> IF r.raised THEN "raised" ELSE "none"]
    /\ g_attempt' = 1
    /\ g_log' = <<>>
    /\ UNCHANGED <<g_calls, llmVars, fnVars>>
    /\ UNCHANGED <<mcVars, cfgVars, ppVars, runVars, exVars>>

\* Mutant: a failed attempt draws the counts and renders the prompt anew.
GenAttemptFails_RedrawsCounts ==
    /\ g_pc = "loop"
    /\ \E resp \in Responses : call_responses_structured(resp).raised
    /\ g_log' = Append(g_log, GenCall)
    /\ IF RetryAllowed(g_attempt, Retries)
       THEN /\ g_attempt' = g_attempt + 1
            /\ \E counts \in CountDraws(question_type, choices_per_question,
                                        questions_per_partition) :
                  /\ g_counts' = counts
                  /\ g_prompt' = GeneratorPrompt(g_chunk_text, counts).text
            /\ UNCHANGED <<g_pc, g_result, g_calls>>
       ELSE /\ GenEnds("exhausted", <<>>)
            /\ UNCHANGED <<g_counts, g_prompt>>
    /\ UNCHANGED <<g_window, g_chunk_text, llmVars, fnVars>>
    /\ UNCHANGED <<mcVars, cfgVars, ppVars, runVars, exVars>>

\* An attempt whose call raises (generate.py:72-104): the same prompt is
\* sent again while attempts remain, else the window returns [].
GenAttemptFails ==
    /\ g_pc = "loop"
    /\ \E resp \in Responses : call_responses_structured(resp).raised
    /\ g_log' = Append(g_log, GenCall)
    /\ IF RetryAllowed(g_attempt, Retries)
       THEN /\ g_attempt' = g_attempt + 1
            /\ UNCHANGED <<g_pc, g_result, g_calls>>
       ELSE GenEnds("exhausted", <<>>)
    /\ UNCHANGED <<g_window, g_chunk_text, g_counts, g_prompt, llmVars, fnVars>>
    /\ UNCHANGED <<mcVars, cfgVars, ppVars, runVars, exVars>>

\* An attempt whose call returns parsed data (generate.py:74-85, 106-120).
GenAttemptReturns ==
    /\ g_pc = "loop"
    /\ g_log' = Append(g_log, GenCall)
    /\ \E resp \in Responses :
          LET r == call_responses_structured(resp)
          IN  /\ ~r.raised
              /\ IF MappingRaises(r.data)
                 THEN GenEnds("raised", <<>>)
                 ELSE GenEnds("ok", MapItems(r.data, question_type, ChunkId(g_window)))
    /\ UNCHANGED <<g_window, g_chunk_text, g_counts, g_prompt, llmVars, fnVars>>
    /\ UNCHANGED <<mcVars, cfgVars, ppVars, runVars, exVars>>

InitGen ==
    /\ question_type \in {"MCQ", "SATA"}
    /\ choices_per_question \in {2, 3}
    /\ randomize_questions = FALSE
    /\ randomize_options = FALSE
    /\ questions_per_partition \in 1..MaxQuestionsPerPartition
    /\ reasoning_effort \in {"none", "high"}
    /\ temperature = "0.2"
    /\ FnIdle
    /\ g_pc = "entry"
    /\ g_window = 1
    /\ g_chunk_text = <<>>
    /\ g_counts = <<>>
    /\ g_prompt = <<>>
    /\ g_attempt = 1
    /\ g_log = <<>>
    /\ g_calls = <<>>
    /\ g_result = [status |-> "none"]
    /\ MakeChunksIdle /\ PostprocessIdle /\ RunIdle /\ ExplainIdle

NextGen ==
    \/ GenStart
    \/ GenAttemptFails
    \/ GenAttemptReturns

SpecGen == InitGen /\ [][NextGen]_vars

InitChunks ==
    MakeChunksInit /\ ConfigIdle /\ PostprocessIdle /\ RunIdle /\ ExplainIdle /\ RequestIdle

NextChunks ==
    \/ MakeChunksIterate
    \/ MakeChunksExit

SpecChunks == InitChunks /\ [][NextChunks]_vars

FairSpecChunks == SpecChunks /\ WF_vars(NextChunks)

-----------------------------------------------------------------------------
(* Claims about postprocess_questions *)

\* The validation rules as the specification lists them, for question q
\* under the configured type and choice count.
CarriesRequiredKeys(q) ==
    {"stem", "choices", "correct_choice_ids", "chunk_id"} \subseteq DOMAIN q

TypeMatches(q) == "question_type" \in DOMAIN q /\ q.question_type = question_type

ChoiceCountMatches(q) == Len(q.choices) = choices_per_question

ChoiceIdsNonEmptyUnique(q) ==
    /\ \A i \in 1..Len(q.choices) : q.choices[i].id # ""
    /\ \A i, j \in 1..Len(q.choices) : (i # j) => q.choices[i].id # q.choices[j].id

CorrectNonEmptySubset(q) ==
    /\ Len(q.correct_choice_ids) >= 1
    /\ \A i \in 1..Len(q.correct_choice_ids) :
          \E j \in 1..Len(q.choices) : q.correct_choice_ids[i] = q.choices[j].id

McqHasOneCorrect(q) == (question_type = "MCQ") => Len(q.correct_choice_ids) = 1

ObeysRules(q) ==
    /\ CarriesRequiredKeys(q)
    /\ TypeMatches(q)
    /\ ChoiceCountMatches(q)
    /\ ChoiceIdsNonEmptyUnique(q)
    /\ CorrectNonEmptySubset(q)
    /\ McqHasOneCorrect(q)

\* C2: postprocess_questions raises if and only if some question of the list
\* breaks one of the validation rules; when it raises, no question has been
\* dropped and no correct_choice_ids has been altered (an MCQ question with
\* two correct ids is not coerced to one).
C2_RaisesIffRuleBroken ==
    (pp_pc \in {"returned", "raised"}) =>
        /\ (pp_pc = "raised") <=> (\E i \in 1..Len(pp_input) : ~ObeysRules(pp_input[i]))
        /\ (pp_pc = "raised") =>
              /\ Len(questions) = Len(pp_input)
              /\ \A i \in 1..Len(questions) :
                    ("correct_choice_ids" \in DOMAIN pp_input[i]) =>
                        questions[i].correct_choice_ids = pp_input[i].correct_choice_ids

\* The call raised on a list whose only defect is an MCQ question with two
\* correct ids.
C2_Witness ==
    /\ pp_pc = "raised"
    /\ question_type = "MCQ"
    /\ \E i \in 1..Len(pp_input) :
          /\ CarriesRequiredKeys(pp_input[i]) /\ TypeMatches(pp_input[i])
          /\ ChoiceCountMatches(pp_input[i]) /\ ChoiceIdsNonEmptyUnique(pp_input[i])
          /\ CorrectNonEmptySubset(pp_input[i])
          /\ Len(pp_input[i].correct_choice_ids) = 2
          /\ \A j \in (1..Len(pp_input)) \ {i} : ObeysRules(pp_input[j])

DigitValue(c) == CHOOSE d \in 0..9 : DigitChars[d + 1] = c

\* id reads "q_" followed by the four decimal digits of n.
IsQuestionIdOf(id, n) ==
    /\ Len(id) = 6
    /\ id[1] = "q" /\ id[2] = "_"
    /\ \A k \in 3..6 : id[k] \in Range(DigitChars)
    /\ 1000 * DigitValue(id[3]) + 100 * DigitValue(id[4])
         + 10 * DigitValue(id[5]) + DigitValue(id[6]) = n

\* C3: after a successful postprocess_questions, whatever the randomization
\* flags, the question at position i of the returned list has the id "q_"
\* followed by i zero-padded to 4 digits: the ids are q_0001..q_N in list
\* order, pairwise distinct, starting at 1, with no gap.
C3_IdsAreSequential ==
    (pp_pc = "returned") =>
        /\ Len(questions) = Len(pp_input)
        /\ \A i \in 1..Len(questions) :
              /\ "id" \in DOMAIN questions[i]
              /\ IsQuestionIdOf(questions[i].id, i)
        /\ \A i, j \in 1..Len(questions) :
              (i # j) => questions[i].id # questions[j].id

\* A successful call with both shuffles on that moved the first question.
C3_Witness ==
    /\ pp_pc = "returned"
    /\ randomize_questions /\ randomize_options
    /\ Len(questions) >= 3
    /\ questions[1].stem # pp_input[1].stem
    /\ questions[3].id = <<"q", "_", "0", "0", "0", "3">>

\* The texts of the choices that q designates as correct.
CorrectTexts(q) ==
    {c.text : c \in {d \in Range(q.choices) : d.id \in Range(q.correct_choice_ids)}}

SameQuestionModuloOrder(a, b) ==
    /\ b.stem = a.stem
    /\ b.correct_choice_ids = a.correct_choice_ids
    /\ Len(b.choices) = Len(a.choices)
    /\ Range(b.choices) = Range(a.choices)
    /\ CorrectTexts(b) = CorrectTexts(a)

\* C4: whatever the question shuffle and the choice shuffles draw, every
\* question comes out with its correct_choice_ids unchanged and with the
\* same set of (choice id, choice text) pairs, only their order may differ,
\* so the texts designated correct are the same before and after; without
\* the question shuffle each question also keeps its position.
C4_ShufflesPreserveCorrectness ==
    (pp_pc = "returned") =>
        /\ \E p \in Permutations(1..Len(pp_input)) :
              \A i \in 1..Len(pp_input) :
                  SameQuestionModuloOrder(pp_input[p[i]], questions[i])
        /\ (~randomize_questions) =>
              \A i \in 1..Len(pp_input) :
                  SameQuestionModuloOrder(pp_input[i], questions[i])

\* A successful call whose choice shuffle reordered the choices of a
\* question with two correct ids.
C4_Witness ==
    /\ pp_pc = "returned"
    /\ randomize_options /\ ~randomize_questions
    /\ Len(questions) >= 1
    /\ Len(questions[1].correct_choice_ids) = 2
    /\ questions[1].choices # pp_input[1].choices

\* C17: a second postprocess_questions with both randomization flags off,
\* applied to the list a successful call returned, does not raise and
\* returns the list as it was: same questions in the same order, same
\* choice order, same ids, every field unchanged.
C17_SecondApplicationChangesNothing ==
    /\ pp_pc # "raised_again"
    /\ (pp_pc = "returned_again") =>
          /\ Len(questions) = Len(pp_input)
          /\ \A i \in 1..Len(questions) :
                /\ DOMAIN questions[i] = DOMAIN pp_input[i]
                /\ \A k \in DOMAIN questions[i] : questions[i][k] = pp_input[i][k]
                /\ IsQuestionIdOf(questions[i].id, i)

\* The second call returned a list of three questions whose choices the
\* first call had reordered.
C17_Witness ==
    /\ pp_pc = "returned_again"
    /\ randomize_questions /\ randomize_options
    /\ Len(questions) = 3
    /\ questions[1].choices[1].id = "c2"
    /\ questions[3].id = <<"q", "_", "0", "0", "0", "3">>

\* C19: validation comes before the shuffles and the shuffles before the
\* ids.  When postprocess_questions raises, the questions stand in the
\* order of the input, each with its choices in the order of the input, and
\* none has been given an id; when it returns, the question at position i
\* after the shuffles carries the id of i.
C19_ValidateThenShuffleThenIds ==
    /\ (pp_pc = "raised") =>
          /\ Len(questions) = Len(pp_input)
          /\ \A i \in 1..Len(questions) :
                /\ "id" \notin DOMAIN questions[i]
                /\ \A k \in (DOMAIN pp_input[i]) \ {"explanation"} :
                      k \in DOMAIN questions[i] /\ questions[i][k] = pp_input[i][k]
    /\ (pp_pc = "returned") =>
          \E p \in Permutations(1..Len(pp_input)) :
              \A i \in 1..Len(pp_input) :
                  /\ questions[i].stem = pp_input[p[i]].stem
                  /\ questions[i].chunk_id = pp_input[p[i]].chunk_id
                  /\ questions[i].id = <<"q", "_">> \o ZeroPad(i, 4)

\* A call with both shuffles on raised at the third question, the two
\* before it having passed validation.
C19_Witness ==
    /\ pp_pc = "raised"
    /\ randomize_questions /\ randomize_options
    /\ Len(pp_input) = 3
    /\ ObeysRules(pp_input[1]) /\ ObeysRules(pp_input[2])
    /\ ~ObeysRules(pp_input[3])
    /\ pp_input[1].stem # pp_input[2].stem

\* C26 as stated: when postprocess_questions raises, the list is exactly
\* as it was before the call, no key added, removed or changed on any
\* question.
C26_RaiseLeavesListUntouched ==
    (pp_pc = "raised") => (questions = pp_input)

\* The position of the first question of the input that breaks a rule.
FirstOffender ==
    CHOOSE k \in 1..Len(pp_input) :
        /\ ~ObeysRules(pp_input[k])
        /\ \A j \in 1..(k - 1) : ObeysRules(pp_input[j])

\* C26 amended: when postprocess_questions raises, the list holds the same
\* questions in the same order and no key has been removed or changed; the
\* only difference is that a question before the offending one that had no
\* explanation key now has explanation "".
C26_RaiseOnlyAddsDefaultExplanation ==
    (pp_pc = "raised") =>
        /\ Len(questions) = Len(pp_input)
        /\ \A i \in 1..Len(questions) :
              IF i < FirstOffender /\ "explanation" \notin DOMAIN pp_input[i]
              THEN /\ DOMAIN questions[i] = (DOMAIN pp_input[i]) \cup {"explanation"}
                   /\ questions[i].explanation = ""
                   /\ \A k \in DOMAIN pp_input[i] : questions[i][k] = pp_input[i][k]
              ELSE questions[i] = pp_input[i]

\* The call raised at the second question, after giving the first, which
\* had none, an empty explanation.
C26_Witness ==
    /\ pp_pc = "raised"
    /\ Len(pp_input) = 2
    /\ ObeysRules(pp_input[1])
    /\ "explanation" \notin DOMAIN pp_input[1]
    /\ "explanation" \in DOMAIN questions[1]
    /\ questions[2] = pp_input[2]

-----------------------------------------------------------------------------
(* Claims about a generation run *)

\* C1: whatever the oracle does, every question of a written output.json
\* has exactly choices_per_question choices, non-empty pairwise distinct
\* choice ids, a non-empty correct_choice_ids within its choice ids, the
\* configured question_type and, for MCQ, exactly one correct id; and when
\* postprocess_questions raises, output.json is not written.
C1_OutputIsValidOrAbsent ==
    /\ output.written =>
          /\ pp_pc = "returned"
          /\ \A i \in 1..Len(output.questions) :
                LET q == output.questions[i]
                IN  /\ TypeMatches(q)
                    /\ ChoiceCountMatches(q)
                    /\ ChoiceIdsNonEmptyUnique(q)
                    /\ CorrectNonEmptySubset(q)
                    /\ McqHasOneCorrect(q)
    /\ (pp_pc = "raised") => (~output.written /\ pc = "aborted")

\* A run in which a window ran out of attempts and the others succeeded,
\* and that wrote its output.
C1_Witness ==
    /\ pc = "done"
    /\ output.written
    /\ Len(output.questions) >= 2
    /\ \E w \in 1..Len(chunks) : wstatus[w] = "exhausted"

\* C5: for one window the oracle is called at most `retries` times, a call
\* is only ever made for a window that has not resolved (none after its
\* first successful call), and when all `retries` calls fail the window's
\* call returns the empty list instead of raising.
C5_BoundedRetriesThenEmpty ==
    /\ [](/\ calls <= Retries
          /\ failures <= calls
          /\ (last_window >= 1) =>
                /\ (wstatus[last_window] = "ok") => (calls = failures + 1)
                /\ (failures = Retries) =>
                      /\ wstatus[last_window] = "exhausted"
                      /\ contrib[last_window] = <<>>
                /\ (wstatus[last_window] = "exhausted") => (failures = Retries)
                /\ (wstatus[last_window] = "pending") => (calls = failures))
    /\ [][(<<last_window, calls>>' # <<last_window, calls>>) =>
             /\ last_window' = chunk_index
             /\ wstatus[chunk_index] = "pending"]_vars

\* A window whose three calls all failed, in a run that went on to write
\* its output.
C5_Witness ==
    /\ last_window >= 1
    /\ failures = Retries
    /\ wstatus[last_window] = "exhausted"
    /\ pc = "done"

\* How llm_generate_questions_for_chunk handles a failed attempt: retry
\* while attempts remain, zero questions for the window after the last.
HandledAsFailedAttempt ==
    IF attempt < Retries
    THEN /\ pc' = "generate"
         /\ chunk_index' = chunk_index
         /\ attempt' = attempt + 1
         /\ all_questions' = all_questions
    ELSE /\ wstatus'[chunk_index] = "exhausted"
         /\ contrib'[chunk_index] = <<>>
         /\ error' # "KeyError"

\* C6: a response that is not JSON, or that parses but does not conform to
\* the declared schema, is handled like a failed call: it uses up one
\* attempt, the call is retried while attempts remain, and after the last
\* attempt the window yields no questions and the run is not aborted.
C6_NonconformingHandledAsFailure ==
    [][(/\ <<last_window, calls>>' # <<last_window, calls>>
        /\ \/ response'.kind = "unparsable"
           \/ /\ response'.kind = "json"
              /\ ~ConformsToSchema(response'.data, choices_per_question))
       => HandledAsFailedAttempt]_vars

RECURSIVE ConcatOk(_)
\* The questions of the windows 1..n that succeeded, in window order.
ConcatOk(n) ==
    IF n = 0 THEN <<>>
    ELSE ConcatOk(n - 1) \o (IF wstatus[n] = "ok" THEN contrib[n] ELSE <<>>)

\* C7: in a run in which a window ran out of attempts, every window is
\* still given its attempts and the questions of every window that
\* succeeded are what postprocess_questions is called with.
C7_ExhaustedWindowDoesNotStopRun ==
    (pc \in {"done", "aborted"} /\ \E w \in 1..Len(chunks) : wstatus[w] = "exhausted") =>
        /\ \A v \in 1..Len(chunks) : wstatus[v] # "pending"
        /\ (\E v \in 1..Len(chunks) : wstatus[v] = "ok") =>
              /\ pp_pc \in {"returned", "raised"}
              /\ pp_input = ConcatOk(Len(chunks))

\* C11: make_chunks with total_pages = 0 returns no windows, and a run over
\* zero windows makes no oracle call and reports no progress, does not
\* raise in postprocess_questions, and ends by writing an output whose
\* questions list is empty.
C11_EmptyDocumentRuns ==
    (total_pages = 0) =>
        /\ chunks = <<>>
        /\ last_window = 0 /\ calls = 0 /\ response.kind = "none"
        /\ progress = <<>>
        /\ pp_pc # "raised" /\ pc # "aborted" /\ error = ""
        /\ (pc = "generate") => ENABLED RunWithoutWindows
        /\ (pc = "done") =>
              /\ pp_pc = "returned" /\ pp_input = <<>>
              /\ output.written /\ output.questions = <<>>

\* A run over a document without pages that wrote its output.
C11_Witness ==
    /\ total_pages = 0
    /\ pc = "done"
    /\ output.written
    /\ output.questions = <<>>

\* C20: when the oracle call for a window succeeds, the window's call
\* returns one draft per returned item, in the oracle's order, each with
\* the window's chunk_id, an empty explanation, the configured
\* question_type, and the item's stem, choices and correct_choice_ids.
C20_DraftsMirrorItems ==
    (last_window >= 1 /\ wstatus[last_window] = "ok") =>
        /\ response.kind = "json"
        /\ Len(contrib[last_window]) = Len(response.data.questions)
        /\ \A i \in 1..Len(contrib[last_window]) :
              LET d == contrib[last_window][i]
                  item == response.data.questions[i]
              IN  /\ DOMAIN d = {"question_type", "stem", "choices",
                                 "correct_choice_ids", "chunk_id", "explanation"}
                  /\ d.chunk_id = chunks[last_window].chunk_id
                  /\ d.explanation = ""
                  /\ d.question_type = question_type
                  /\ d.stem = item.stem
                  /\ d.choices = item.choices
                  /\ d.correct_choice_ids = item.correct_choice_ids

\* The second window's call returned the drafts of a response of two items.
C20_Witness ==
    /\ last_window = 2
    /\ wstatus[2] = "ok"
    /\ Len(contrib[2]) = 2
    /\ contrib[2][1].stem = "s6" /\ contrib[2][2].stem = "s7"
    /\ contrib[2][1].chunk_id = <<"c", "h", "u", "n", "k", "_", "0", "0", "2">>

Resolved(w) == wstatus[w] \in {"ok", "exhausted"}

\* C22: the windows are processed one at a time in partition order: an
\* oracle call is made for a window only when every window before it has
\* resolved (success or exhausted retries) and no window from it on has;
\* the progress callback has been invoked once for each resolved window,
\* with (1, total), (2, total), ... in this order, a window that gave no
\* question included; and when the loop is over every window has reported.
C22_SequentialWindowsAndProgress ==
    /\ [](LET k == Cardinality({w \in 1..Len(chunks) : Resolved(w)})
          IN  /\ \A w \in 1..Len(chunks) : Resolved(w) <=> (w <= k)
              /\ Len(progress) = k
              /\ \A i \in 1..k : progress[i] = <<i, Len(chunks)>>
              /\ (pp_pc \in {"returned", "raised"}) => (k = Len(chunks)))
    /\ [][(<<last_window, calls>>' # <<last_window, calls>>) =>
             /\ last_window' = chunk_index
             /\ last_window' >= last_window
             /\ \A v \in 1..(chunk_index - 1) : Resolved(v)
             /\ \A v \in chunk_index..Len(chunks) : wstatus[v] = "pending"]_vars

\* A run over three windows, the second of which ran out of attempts, has
\* reported progress three times.
C22_Witness ==
    /\ pc = "done"
    /\ Len(chunks) = 3
    /\ wstatus[1] = "ok" /\ wstatus[2] = "exhausted" /\ wstatus[3] = "ok"
    /\ contrib[2] = <<>>
    /\ progress = << <<1, 3>>, <<2, 3>> , <<3, 3>> >>

\* What identifies a question whatever its choice order and id.
Signature(q) == <<q.stem, q.chunk_id, q.correct_choice_ids, Range(q.choices)>>

Occurrences(qs, sig) == Cardinality({i \in 1..Len(qs) : Signature(qs[i]) = sig})

-----------------------------------------------------------------------------
(* Claims about make_chunks *)

Pages(w) == w.page_start .. w.page_end

\* C8: for total_pages >= 1, pages_per_partition >= 1 and
\* 0 <= overlap_pages < pages_per_partition, every window satisfies
\* 1 <= page_start <= page_end <= total_pages, and the windows returned
\* cover exactly the pages 1..total_pages.
C8_WindowsCoverDocument ==
    /\ \A i \in 1..Len(chunks) :
          /\ 1 <= chunks[i].page_start
          /\ chunks[i].page_start <= chunks[i].page_end
          /\ chunks[i].page_end <= total_pages
    /\ (mc_pc = "done" /\ total_pages >= 1) =>
          UNION {Pages(chunks[i]) : i \in 1..Len(chunks)} = 1..total_pages

\* A run that returned several windows, the last one cut short by the end
\* of the document.
C8_Witness ==
    /\ mc_pc = "done"
    /\ overlap_pages = 0
    /\ Len(chunks) >= 2
    /\ Cardinality(Pages(chunks[Len(chunks)])) < pages_per_partition

\* C9: for total_pages >= 1 and 1 <= overlap_pages < pages_per_partition,
\* no page lies between one window's page_end and the next window's
\* page_start, and two consecutive windows of which the second is not the
\* final window share exactly overlap_pages pages.
C9_ContiguousExactOverlap ==
    (mc_pc = "done" /\ total_pages >= 1 /\ overlap_pages >= 1) =>
        \A i \in 1..(Len(chunks) - 1) :
            /\ chunks[i + 1].page_start <= chunks[i].page_end + 1
            /\ (i + 1 < Len(chunks)) =>
                  Cardinality(Pages(chunks[i]) \cap Pages(chunks[i + 1]))
                      = overlap_pages

\* Overlapping windows, with a pair whose second member is not the last.
C9_Witness ==
    /\ mc_pc = "done"
    /\ overlap_pages >= 1
    /\ Len(chunks) >= 3

\* C10: for total_pages >= 0 the loop terminates; when total_pages >= 1 the
\* last window of the list ends at total_pages, no other window does, and a
\* window that ends at total_pages ends the loop (nothing is emitted after).
C10_TerminatesAtFinalWindow ==
    /\ <>(mc_pc = "done")
    /\ [](\A i \in 1..Len(chunks) :
             (chunks[i].page_end = total_pages) =>
                 (i = Len(chunks) /\ mc_pc = "done"))
    /\ []((mc_pc = "done" /\ total_pages >= 1) =>
             /\ Len(chunks) >= 1
             /\ chunks[Len(chunks)].page_end = total_pages)

\* A returned list whose final window is shorter than pages_per_partition
\* and overlaps its predecessor.
C10_Witness ==
    /\ mc_pc = "done"
    /\ total_pages >= 1
    /\ overlap_pages >= 1
    /\ Len(chunks) >= 2
    /\ Cardinality(Pages(chunks[Len(chunks)])) < pages_per_partition

\* C29: for total_pages >= 1 every pair of consecutive windows, the pair
\* that ends in the final window included, satisfies
\* next.page_start = prev.page_end - overlap_pages + 1 and
\* next.page_end > prev.page_end: the two share exactly overlap_pages
\* pages, and every window after the first holds a page that no earlier
\* window holds.
C29_EveryPairOverlapsExactly ==
    (total_pages >= 1) =>
        \A i \in 1..(Len(chunks) - 1) :
            /\ chunks[i + 1].page_start = chunks[i].page_end - overlap_pages + 1
            /\ chunks[i + 1].page_end > chunks[i].page_end
            /\ Cardinality(Pages(chunks[i]) \cap Pages(chunks[i + 1])) = overlap_pages
            /\ Pages(chunks[i + 1]) \ UNION {Pages(chunks[j]) : j \in 1..i} # {}

\* Three windows with one page of overlap, the last cut short by the end
\* of the document.
C29_Witness ==
    /\ mc_pc = "done"
    /\ overlap_pages = 1
    /\ Len(chunks) = 3
    /\ chunks[3].page_end = total_pages
    /\ Cardinality(Pages(chunks[3])) < pages_per_partition
    /\ chunks[3].page_start = chunks[2].page_end

-----------------------------------------------------------------------------
(* Claims about the enricher *)

\* The positions of wrong_ids whose iteration of the loop is over.
Processed ==
    IF ex_pc = "done" THEN 1..Len(wrong_ids)
    ELSE IF ex_pc = "loop" THEN 1..(ex_pos - 1)
    ELSE {}

\* The question of the loaded output that the entry at position p names.
NamedBy(p) ==
    {i \in 1..Len(ex_loaded.questions) : ex_loaded.questions[i].id = wrong_ids[p]}

CallsFor(p) == {i \in 1..Len(ex_log) : ex_log[i].pos = p}

Succeeded(p) == \E i \in CallsFor(p) : ex_log[i].resp.kind = "text"

\* C12: an entry of wrong_ids that names no question of the output is
\* counted as skipped-missing, causes no oracle call and no rejection, and
\* the entries after it are still processed; with the wrong ids
\* [q_0001, q_9999], an output whose only question is q_0001 and an oracle
\* that succeeds, one explanation is updated and one id is skipped-missing.
C12_MissingIdsAreSkipped ==
    (ex_pc \in {"loop", "done"}) =>
        /\ skipped_missing = Cardinality({p \in Processed : NamedBy(p) = {}})
        /\ \A i \in 1..Len(ex_log) : NamedBy(ex_log[i].pos) # {}
        /\ \A p \in Processed : (NamedBy(p) # {}) => (CallsFor(p) # {})
        /\ (ex_pc = "loop") => (ex_pos <= Len(wrong_ids))
        /\ (/\ ex_pc = "done"
            /\ wrong_ids = <<QuestionId(1), QuestionId(9999)>>
            /\ Len(ex_loaded.questions) = 1
            /\ Succeeded(1))
           => (updated = 1 /\ skipped_missing = 1 /\ skipped_failed = 0)

\* The command ended on [q_0001, q_9999] over an output that only holds
\* q_0001, whose explanation was written.
C12_Witness ==
    /\ ex_pc = "done"
    /\ wrong_ids = <<QuestionId(1), QuestionId(9999)>>
    /\ Len(ex_loaded.questions) = 1
    /\ Len(ex_log) = 1
    /\ updated = 1
    /\ skipped_missing = 1

\* C13: for an entry that names a question the oracle is called at most
\* `retries` (3) times, each call after the first following a failed one,
\* and none after a success: a success at any attempt counts the question
\* as updated and not as failed; three failures count it as skipped-failed,
\* leave the output as it was before the calls, and the loop goes on to the
\* next entry.
C13_BoundedExplainRetries ==
    /\ []((ex_pc \in {"loop", "done"}) =>
            /\ \A p \in 1..Len(wrong_ids) : Cardinality(CallsFor(p)) <= ExplainRetries
            /\ \A i \in 1..Len(ex_log) :
                  /\ ex_log[i].attempt \in 1..ExplainRetries
                  /\ (ex_log[i].attempt > 1) =>
                        /\ i > 1
                        /\ ex_log[i - 1].pos = ex_log[i].pos
                        /\ ex_log[i - 1].attempt = ex_log[i].attempt - 1
                        /\ ex_log[i - 1].resp.kind = "call_error"
                  /\ (ex_log[i].attempt = 1) =>
                        \A j \in 1..(i - 1) : ex_log[j].pos < ex_log[i].pos
                  /\ (ex_log[i].resp.kind = "text") =>
                        \A j \in (i + 1)..Len(ex_log) : ex_log[j].pos # ex_log[i].pos
            /\ updated = Cardinality({p \in Processed : Succeeded(p)})
            /\ skipped_failed =
                  Cardinality({p \in Processed :
                                  /\ NamedBy(p) # {}
                                  /\ Cardinality(CallsFor(p)) = ExplainRetries
                                  /\ ~Succeeded(p)})
            /\ \A p \in Processed :
                  (NamedBy(p) # {} /\ ~Succeeded(p)) =>
                      Cardinality(CallsFor(p)) = ExplainRetries)
    /\ [][(ex_pc = "loop" /\ skipped_failed' # skipped_failed) =>
             /\ skipped_failed' = skipped_failed + 1
             /\ ex_output' = ex_output
             /\ updated' = updated
             /\ IF ex_pos < Len(wrong_ids)
                THEN ex_pc' = "loop" /\ ex_pos' = ex_pos + 1 /\ ex_attempt' = 1
                ELSE ex_pc' = "done" /\ output_file' = ex_output]_vars

\* Three failed calls for q_0002, whose earlier explanation stayed, and
\* then two failed calls and a successful one for q_0001.
C13_Witness ==
    /\ ex_pc = "done"
    /\ wrong_ids = <<QuestionId(2), QuestionId(1)>>
    /\ Len(ex_log) = 6
    /\ ex_log[3].pos = 1 /\ ex_log[3].resp.kind = "call_error"
    /\ ex_log[6].attempt = 3 /\ ex_log[6].resp.kind = "text"
    /\ updated = 1 /\ skipped_failed = 1
    /\ output_file.questions[2].explanation = <<"o", "l", "d">>
    /\ output_file.questions[1].explanation # <<>>

\* C14: the output the enricher returns, which the command writes, differs
\* from the output it loaded in nothing but the explanation of questions
\* that wrong_ids names and for which an oracle call succeeded: the
\* top-level fields, the number and order of the questions and every other
\* field of every question are the same.
C14_OnlyExplanationsChange ==
    (ex_pc \in {"loop", "done"}) =>
        /\ DOMAIN ex_output = DOMAIN ex_loaded
        /\ \A k \in (DOMAIN ex_output) \ {"questions"} : ex_output[k] = ex_loaded[k]
        /\ {"schema_version", "run_id", "context_file", "settings", "questions"}
               \subseteq DOMAIN ex_output
        /\ Len(ex_output.questions) = Len(ex_loaded.questions)
        /\ \A i \in 1..Len(ex_output.questions) :
              /\ Without(ex_output.questions[i], "explanation")
                    = Without(ex_loaded.questions[i], "explanation")
              /\ (~ \E p \in 1..Len(wrong_ids) : i \in NamedBy(p) /\ Succeeded(p)) =>
                    ex_output.questions[i] = ex_loaded.questions[i]
        /\ (ex_pc = "done") => (output_file = ex_output)

\* Of two questions one was explained and the other, not named, kept its
\* explanation.
C14_Witness ==
    /\ ex_pc = "done"
    /\ ex_run = 1
    /\ wrong_ids = <<QuestionId(1), QuestionId(9999)>>
    /\ Len(ex_output.questions) = 2
    /\ ex_output.questions[1].explanation = <<"n", "o">>
    /\ ex_output.questions[2] = ex_loaded.questions[2]
    /\ output_file # ex_loaded

\* t is raw without the whitespace at its two ends.
IsTrimOf(t, raw) ==
    /\ (Len(t) > 0) => (t[1] \notin Whitespace /\ t[Len(t)] \notin Whitespace)
    /\ \E a \in 0..Len(raw) :
          /\ a + Len(t) <= Len(raw)
          /\ \A i \in 1..Len(raw) :
                IF i <= a \/ i > a + Len(t)
                THEN raw[i] \in Whitespace
                ELSE raw[i] = t[i - a]

\* C15: a successful explanation call leaves the question's explanation
\* equal to the returned text, trimmed, whatever it was before; and a
\* second run of the command with the same wrong ids and the same oracle
\* responses leaves the output as the first run left it.
C15_OverwritesAndIdempotent ==
    /\ [][(updated' = updated + 1) =>
             LET e == ex_log'[Len(ex_log')]
             IN  /\ e.resp.kind = "text"
                 /\ \A i \in 1..Len(ex_output'.questions) :
                       (ex_output'.questions[i].id = wrong_ids[e.pos]) =>
                           IsTrimOf(ex_output'.questions[i].explanation, e.resp.text)]_vars
    /\ []((ex_run = 2 /\ ex_pc = "done") =>
             /\ ex_log = ex_replay
             /\ output_file = ex_loaded)

\* The second run ended; it explained again a question whose explanation
\* the first run had replaced.
C15_Witness ==
    /\ ex_run = 2
    /\ ex_pc = "done"
    /\ updated = 1
    /\ wrong_ids = <<QuestionId(2)>>
    /\ Len(output_file.questions) = 2
    /\ ex_replay[1].resp.text = <<" ", "y", "e", "s", "\n">>
    /\ output_file.questions[2].explanation = <<"y", "e", "s">>

LetterPosition(l) == CHOOSE i \in 1..Len(Letters) : Letters[i] = l

\* C16: in the prompt for a question with non-empty distinct choice ids and
\* correct ids among them, line i of the choices field is the i-th letter,
\* ". " and the text of the choice now at position i, and entry j of the
\* correct-answer field is the letter of the position now held by the
\* choice whose id is correct_choice_ids[j]; no label or entry is a choice
\* id or "?".
C16_PromptUsesCurrentLetters ==
    \A n \in 1..Len(ex_log) :
        \A k \in NamedBy(ex_log[n].pos) :
            LET q == ex_loaded.questions[k]
                ch == ex_log[n].prompt.choices
                co == ex_log[n].prompt.correct_choice_ids
                ids == {q.choices[i].id : i \in 1..Len(q.choices)}
            IN  (ChoiceIdsNonEmptyUnique(q) /\ CorrectNonEmptySubset(q)) =>
                  /\ Len(ch) = 4 * Len(q.choices) - 1
                  /\ \A i \in 1..Len(q.choices) :
                        /\ ch[4 * i - 3] = Letters[i]
                        /\ ch[4 * i - 3] \notin ids \cup {"?"}
                        /\ ch[4 * i - 2] = ". "
                        /\ ch[4 * i - 1] = q.choices[i].text
                        /\ (i < Len(q.choices)) => (ch[4 * i] = "\n")
                  /\ Len(co) = 2 * Len(q.correct_choice_ids) - 1
                  /\ \A j \in 1..Len(q.correct_choice_ids) :
                        /\ co[2 * j - 1] \notin ids \cup {"?"}
                        /\ co[2 * j - 1] \in Range(Letters)
                        /\ LetterPosition(co[2 * j - 1]) <= Len(q.choices)
                        /\ q.choices[LetterPosition(co[2 * j - 1])].id
                              = q.correct_choice_ids[j]
                        /\ (j < Len(q.correct_choice_ids)) => (co[2 * j] = ", ")

\* A call was made for a question whose choices stand in the order
\* c3, c1, c2 and whose correct ids are c2, c3: the prompt says "C, A".
C16_Witness ==
    \E n \in 1..Len(ex_log) :
        /\ ex_log[n].prompt.correct_choice_ids = <<"C", ", ", "A">>
        /\ ex_log[n].prompt.choices[1] = "A"
        /\ ex_log[n].prompt.choices[3] = "gamma"

\* The document gives wrong_question_ids a value that is not a list of
\* strings.
MalformedWrongIds ==
    /\ "wrong_question_ids" \in DOMAIN wrong_doc
    /\ \/ wrong_doc.wrong_question_ids.type # "list"
       \/ \E i \in 1..Len(wrong_doc.wrong_question_ids.items) :
             wrong_doc.wrong_question_ids.items[i].type # "string"

\* C18: when wrong_question_ids is not a list of strings the explain
\* command ends in a rejection of its input, the oracle client has not been
\* made and no oracle call is made, and output.json stays as it was.
C18_MalformedWrongIdsRejected ==
    /\ [](MalformedWrongIds =>
             /\ ex_pc \in {"start", "rejected"}
             /\ (ex_pc = "start") => ENABLED ExplainStart
             /\ ~client_made
             /\ ex_log = <<>>
             /\ output_file \in ExplainOutputs)
    /\ []((ex_pc = "rejected") => MalformedWrongIds)
    /\ [][MalformedWrongIds => (output_file' = output_file)]_vars

\* The command rejected a list that holds a string and a number.
C18_Witness ==
    /\ ex_pc = "rejected"
    /\ wrong_doc.wrong_question_ids.type = "list"
    /\ Len(wrong_doc.wrong_question_ids.items) = 2
    /\ ~client_made

Missing(p) == NamedBy(p) = {}

Failed(p) == NamedBy(p) # {} /\ ~Succeeded(p)

\* C27: when the enricher returns, updated + skipped_missing +
\* skipped_failed is the length of wrong_ids: every entry, each occurrence
\* of a repeated id by itself, has been counted in exactly one of the
\* three counters.
C27_CountersPartitionWrongIds ==
    (ex_pc \in {"loop", "done"}) =>
        /\ updated + skipped_missing + skipped_failed = Cardinality(Processed)
        /\ (ex_pc = "done") =>
              updated + skipped_missing + skipped_failed = Len(wrong_ids)
        /\ updated = Cardinality({p \in Processed : ~Missing(p) /\ Succeeded(p)})
        /\ skipped_missing = Cardinality({p \in Processed : Missing(p)})
        /\ skipped_failed = Cardinality({p \in Processed : Failed(p)})
        /\ \A p \in Processed : ~(Missing(p) /\ Succeeded(p))

\* The same id twice: explained at its first occurrence, failed at its
\* second.
C27_Witness ==
    /\ ex_pc = "done"
    /\ wrong_ids = <<QuestionId(1), QuestionId(1)>>
    /\ updated = 1
    /\ skipped_failed = 1
    /\ skipped_missing = 0

-----------------------------------------------------------------------------
(* Claims about the prompt and request builders, checked under SpecFn.     *)

IsBrace(c) == c \in {"{", "}"}

\* The place in the escaped text of the i-th token of t.
EscapedPosition(t, i) == i + Cardinality({j \in 1..(i - 1) : IsBrace(t[j])})

\* e is t with every brace written twice and nothing else changed.
IsEscapeOf(e, t) ==
    /\ Len(e) = EscapedPosition(t, Len(t) + 1) - 1
    /\ \A i \in 1..Len(t) :
          /\ e[EscapedPosition(t, i)] = t[i]
          /\ IsBrace(t[i]) => e[EscapedPosition(t, i) + 1] = t[i]

\* What the generator prompt reads around the value of its context.
GeneratorPromptAround(context) ==
    <<"Write ">> \o Digits(questions_per_partition) \o <<" ", question_type,
      " questions with ">> \o Digits(choices_per_question)
      \o <<" choices each.", "\n", "\n", "Answer with JSON like ", "{", "questions", "}",
           ".", "\n", "\n", "Context:", "\n">>
      \o context \o <<"\n", "End of context.">>

\* What the enricher prompt reads around the values of its three variables.
ExplainPromptAround(stem, choices, correct) ==
    <<"Question: ">> \o stem \o <<"\n">> \o choices \o <<"\n", "Correct: ">>
      \o correct \o <<"\n", "Explain the answer.">>

\* C23: the stem, the rendered choices, the rendered correct letters and
\* the chunk text are substituted with every brace escaped by escape_braces;
\* the substitution does not fail, and the prompt is the template's own text
\* with each value in the place of its placeholder, no part of a value read
\* as a placeholder.
C23_BracesEscapedBeforeSubstitution ==
    /\ fn_op = "render_generator_prompt" =>
          /\ ~fn_result.raised
          /\ IsEscapeOf(fn_result.variables.context, fn_text)
          /\ fn_result.prompt = GeneratorPromptAround(fn_result.variables.context)
    /\ fn_op = "render_explain_prompt" =>
          /\ ~fn_result.raised
          /\ IsEscapeOf(fn_result.variables.stem, fn_text)
          /\ IsEscapeOf(fn_result.variables.choices,
                        format_choices_with_letters(FnQuestionChoices))
          /\ IsEscapeOf(fn_result.variables.correct_choice_ids,
                        format_correct_letters(FnQuestionChoices, <<"c1">>))
          /\ fn_result.prompt =
                ExplainPromptAround(fn_result.variables.stem, fn_result.variables.choices,
                                    fn_result.variables.correct_choice_ids)

\* A stem that reads as the placeholder of the stem, and a choice that
\* reads as a brace, have been rendered into the enricher prompt.
C23_Witness ==
    /\ fn_op = "render_explain_prompt"
    /\ fn_text = <<"{", "stem", "}">>
    /\ ~fn_result.raised
    /\ Len(fn_result.prompt) > 0

\* C24: the request of call_responses_text and of call_responses_structured
\* has a temperature exactly when a temperature is given and the reasoning
\* effort is "none"; otherwise the request has none and is sent all the same.
C24_TemperatureOnlyWithoutReasoning ==
    fn_op \in {"call_responses_structured", "call_responses_text"} =>
        /\ ~fn_result.raised
        /\ ("temperature" \in DOMAIN fn_result.req)
              <=> (temperature # "None" /\ reasoning_effort = "none")
        /\ "temperature" \in DOMAIN fn_result.req =>
              fn_result.req.temperature = Float(temperature)
        /\ fn_result.req.reasoning.effort = reasoning_effort
        /\ fn_result.req.input = fn_text

\* A temperature is given, the effort is not "none", and the structured
\* request was built without a temperature.
C24_Witness ==
    /\ fn_op = "call_responses_structured"
    /\ temperature = "0.2"
    /\ reasoning_effort = "high"
    /\ "temperature" \notin DOMAIN fn_result.req
    /\ ~fn_result.raised

\* C25: the prompt made by substituting escape_braces(text) reads the text
\* with its braces as they were in the original, not doubled.
C25_PromptHoldsOriginalText ==
    /\ fn_op = "render_generator_prompt" =>
          fn_result.prompt = GeneratorPromptAround(fn_text)
    /\ fn_op = "render_explain_prompt" =>
          fn_result.prompt =
              ExplainPromptAround(fn_text, format_choices_with_letters(FnQuestionChoices),
                                  format_correct_letters(FnQuestionChoices, <<"c1">>))

-----------------------------------------------------------------------------
(* Claims about llm_generate_questions_for_chunk, checked under SpecGen.   *)

\* part occurs in text as a run of consecutive tokens.
Contains(text, part) ==
    \E i \in 0..(Len(text) - Len(part)) : SubSeq(text, i + 1, i + Len(part)) = part

SataLead == "SATA only: Use these exact correct-choice counts per question, in order: "

\* The counts as the prompt spells them.
CountsSpelled(counts) ==
    <<SataLead>> \o Join([i \in 1..Len(counts) |-> Digits(counts[i])], ", ") \o <<".">>

\* The call for the window has drawn its counts and built its prompt.
GenPrepared == g_pc \in {"loop", "returned"}

C21_CountsOfTheRequest ==
    GenPrepared =>
       IF question_type = "SATA"
       THEN /\ Len(g_counts) = questions_per_partition
            /\ \A i \in 1..Len(g_counts) : g_counts[i] \in 1..choices_per_question
            /\ Contains(g_prompt, CountsSpelled(g_counts))
            /\ \A i \in 1..Len(g_log) : Contains(g_log[i].req.input, CountsSpelled(g_counts))
       ELSE /\ g_counts = <<>>
            /\ \A i \in 1..Len(g_prompt) : g_prompt[i] # SataLead
            /\ \A i \in 1..Len(g_log) :
                  \A j \in 1..Len(g_log[i].req.input) : g_log[i].req.input[j] # SataLead

C21_CountsFixedBeforeCalls ==
    /\ g_counts' # g_counts => g_log' = <<>>
    /\ g_log' # <<>> /\ g_log' # g_log => g_counts' = g_counts

\* C21: a SATA request carries exactly questions_per_partition counts, each
\* an integer from 1 to choices_per_question, drawn before the first oracle
\* call of the window and unchanged by the calls; an MCQ request carries none.
C21_SataCountsPrecommitted ==
    []C21_CountsOfTheRequest /\ [][C21_CountsFixedBeforeCalls]_vars

\* A SATA window of two questions with counts 1 and 3 has made two calls.
C21_Witness ==
    /\ question_type = "SATA"
    /\ g_counts = <<1, 3>>
    /\ Len(g_log) = 2
    /\ Contains(g_log[2].req.input, <<SataLead, "1", ", ", "3", ".">>)

C28_AttemptsOfTheWindow ==
    /\ Len(g_log) <= Retries
    /\ \A i \in 1..Len(g_log) :
          /\ g_log[i].attempt = i
          /\ g_log[i].req = g_log[1].req
          /\ g_log[i].req.input = g_prompt
    /\ g_pc = "loop" => g_attempt = Len(g_log) + 1
    /\ g_pc = "returned" /\ g_result.status = "exhausted" => Len(g_log) = Retries
    /\ \A w \in 1..Len(g_calls) : g_calls[w] \in 1..Retries

C28_PromptBuiltOncePerWindow ==
    /\ g_log' # <<>> /\ g_log' # g_log =>
          /\ g_prompt' = g_prompt
          /\ g_counts' = g_counts
          /\ g_window' = g_window
          /\ g_log' = Append(g_log, [attempt |-> Len(g_log) + 1, req |-> g_log'[1].req])
    /\ g_window' # g_window => g_attempt' = 1 /\ g_log' = <<>>

\* C28: all attempts for one window send the same request, whose prompt
\* (SATA counts included) is built once before the first attempt and not
\* drawn again; the attempts of every window are counted from 1, whatever
\* the previous window used.
C28_SameRequestEveryAttempt ==
    []C28_AttemptsOfTheWindow /\ [][C28_PromptBuiltOncePerWindow]_vars

\* The second SATA window is given up after three calls, the first one
\* having used three calls too.
C28_Witness ==
    /\ question_type = "SATA"
    /\ g_window = 2
    /\ g_pc = "returned"
    /\ g_result.status = "exhausted"
    /\ Len(g_log) = 3
    /\ g_calls = <<3, 3>>

====
